---- MODULE Spec2Model ----
(***************************************************************************)
(* Verification model of the pollen-app core: the risk engine             *)
(* (utils/calculateRisk.ts), the location hook (hooks/useLocation.ts with  *)
(* services/locationService), the sensitivity hook                         *)
(* (hooks/useSensitivity.ts with services/storageService) and the          *)
(* forecast hook (hooks/usePollenData.ts with services/pollenApi).         *)
(*                                                                         *)
(* Numbers: a risk score is a decimal with one fractional digit and is     *)
(* held in tenths (5.0 is 50).  A rational is passed as numerator and      *)
(* denominator.  Distances are held in metres.                             *)
(***************************************************************************)
EXTENDS Integers, Sequences, FiniteSets, TLC

VARIABLES
  riskCall,     \* the last call made to the risk engine, with its result
  loc,          \* useLocation: the hook state (useState)
  locOpts,      \* useLocation: the options the hook was called with
  locMounted,   \* useLocation: the mount effects have run
  locStored,    \* localStorage item pollenTracker.locationSettings
  locPending,   \* useLocation: detectLocation calls awaiting the detector
  locClock,     \* wall clock read by new Date() in detectLocation
  locLast,      \* the last completed location operation and what it did
  locOps,       \* the calls the interface has made to the location hook
  fs,           \* usePollenData: the hook state (useState)
  lastFetchId,  \* usePollenData: lastFetchIdRef.current
  abortCtl,     \* usePollenData: the request whose controller abortControllerRef holds
  lastFetchParams, \* usePollenData: lastFetchParamsRef.current
  reqs,         \* the fetchData calls made so far and where each stands
  fetchLast,    \* the last step of the forecast hook and what it did
  sens,         \* useSensitivity: the hook state (useState)
  sensOriginal, \* useSensitivity: originalSensitivity, the saved baseline
  sensOpts,     \* useSensitivity: the options the hook was called with
  sensMounted,  \* useSensitivity: the effects of the first render have run
  sensStored,   \* the sensitivity of the profile in localStorage, if any
  sensTimer,    \* the auto-save timeout: the ms left, if one is pending
  sensQuiet,    \* ms since the last edit, counted up to the auto-save delay
  sensBurst,    \* the run of edits in progress and the saves it has caused
  sensLast      \* the last operation of the sensitivity hook and what it did

riskVars == <<riskCall>>
locVars == <<loc, locOpts, locMounted, locStored, locPending, locClock, locLast,
             locOps>>
fetchVars == <<fs, lastFetchId, abortCtl, lastFetchParams, reqs, fetchLast>>
sensVars == <<sens, sensOriginal, sensOpts, sensMounted, sensStored, sensTimer,
              sensQuiet, sensBurst, sensLast>>

----------------------------------------------------------------------------
(* Arithmetic helpers *)

Min(a, b) == IF a < b THEN a ELSE b
Max(a, b) == IF a > b THEN a ELSE b
Abs(a) == IF a < 0 THEN -a ELSE a

\* Math.round of the rational num/den (den > 0): the nearest integer, a half
\* rounding towards plus infinity, i.e. floor(x + 1/2).
MathRound(num, den) == (2 * num + den) \div (2 * den)

----------------------------------------------------------------------------
(* Risk engine: utils/calculateRisk.ts *)

\* RISK_CONFIG.thresholds
ThresholdLow == 2
ThresholdModerate == 5
ThresholdHigh == 8

\* RISK_CONFIG.weights
WeightTree == 1
WeightGrass == 1
WeightWeed == 1

PollenTypes == <<"TREE", "GRASS", "WEED">>

\* calculatePollenRiskScore: result in tenths
calculatePollenRiskScoreNoSensClamp(pollenIndex, userSensitivity) ==
  LET p == IF pollenIndex < 0 \/ pollenIndex > 5
           THEN Max(0, Min(5, pollenIndex)) ELSE pollenIndex
  IN MathRound(p * userSensitivity * 10, 10)

calculatePollenRiskScore(pollenIndex, userSensitivity) ==
  LET p == IF pollenIndex < 0 \/ pollenIndex > 5
           THEN Max(0, Min(5, pollenIndex)) ELSE pollenIndex
      s == IF userSensitivity < 1 \/ userSensitivity > 10
           THEN Max(1, Min(10, userSensitivity)) ELSE userSensitivity
      \* riskScore = (p * s) / 10, then Math.round(riskScore * 10) / 10
  IN MathRound(p * s * 10, 10)

\* getRiskLevel of the score num/den
getRiskLevelUpperInclusive(num, den) ==
  IF num <= ThresholdLow * den THEN "low"
  ELSE IF num <= ThresholdModerate * den THEN "moderate"
  ELSE IF num <= ThresholdHigh * den THEN "high"
  ELSE "very-high"

getRiskLevel(num, den) ==
  IF num < ThresholdLow * den THEN "low"
  ELSE IF num < ThresholdModerate * den THEN "moderate"
  ELSE IF num < ThresholdHigh * den THEN "high"
  ELSE "very-high"

\* extractPollenTypeData: pollenTypes.find(p => p.code === targetType), then
\* pollenData?.indexInfo?.value ?? 0
FindIndex(pollenTypes, targetType) ==
  LET hits == {i \in 1..Len(pollenTypes) : pollenTypes[i].code = targetType}
  IN IF hits = {} THEN 0 ELSE CHOOSE i \in hits : \A j \in hits : i <= j

extractPollenTypeData(pollenTypes, targetType) ==
  LET i == FindIndex(pollenTypes, targetType)
  IN [index |-> IF i = 0 THEN 0
                ELSE IF ~pollenTypes[i].hasIndexInfo THEN 0
                ELSE pollenTypes[i].value]

\* calculateOverallRisk: weighted average of scores in tenths, rounded to a tenth
calculateOverallRiskFloor(treeScore, grassScore, weedScore) ==
  (treeScore + grassScore + weedScore) \div 3

calculateOverallRisk(treeScore, grassScore, weedScore) ==
  LET totalWeight == WeightTree + WeightGrass + WeightWeed
      weightedSum == treeScore * WeightTree + grassScore * WeightGrass
                     + weedScore * WeightWeed
      \* overallScore = weightedSum / totalWeight (in tenths), so
      \* Math.round(overallScore * 10) is the rounding of weightedSum/totalWeight
  IN MathRound(weightedSum, totalWeight)

calculatePersonalizedRisk(dailyPollenData, userSensitivity) ==
  LET treeData == extractPollenTypeData(dailyPollenData.pollenTypeInfo, "TREE")
      grassData == extractPollenTypeData(dailyPollenData.pollenTypeInfo, "GRASS")
      weedData == extractPollenTypeData(dailyPollenData.pollenTypeInfo, "WEED")
      treeScore == calculatePollenRiskScore(treeData.index, userSensitivity.tree)
      grassScore == calculatePollenRiskScore(grassData.index, userSensitivity.grass)
      weedScore == calculatePollenRiskScore(weedData.index, userSensitivity.weed)
      overallScore == calculateOverallRisk(treeScore, grassScore, weedScore)
  IN [overallRisk |-> getRiskLevel(overallScore, 10),
      overallScore |-> overallScore,
      pollenTypes |->
        [tree |-> [index |-> treeData.index, risk |-> getRiskLevel(treeScore, 10),
                   score |-> treeScore],
         grass |-> [index |-> grassData.index, risk |-> getRiskLevel(grassScore, 10),
                    score |-> grassScore],
         weed |-> [index |-> weedData.index, risk |-> getRiskLevel(weedScore, 10),
                   score |-> weedScore]]]

\* Set.add in insertion order: a value already present keeps its place
RECURSIVE AddAll(_, _)
AddAll(recommendations, recs) ==
  IF recs = <<>> THEN recommendations
  ELSE AddAll(IF \E i \in 1 .. Len(recommendations) : recommendations[i] = Head(recs)
              THEN recommendations
              ELSE Append(recommendations, Head(recs)),
              Tail(recs))

\* the forEach of consolidateHealthRecommendations over entries i..: an entry
\* counts when inSeason is true and it has healthRecommendations (<<list>>)
RECURSIVE CollectAllTypes(_, _, _)
CollectAllTypes(pollenTypes, i, recommendations) ==
  IF i > Len(pollenTypes) THEN recommendations
  ELSE CollectAllTypes(pollenTypes, i + 1,
         IF pollenTypes[i].healthRecommendations # <<>>
         THEN AddAll(recommendations, pollenTypes[i].healthRecommendations[1])
         ELSE recommendations)
RECURSIVE Collect(_, _, _)
Collect(pollenTypes, i, recommendations) ==
  IF i > Len(pollenTypes) THEN recommendations
  ELSE Collect(pollenTypes, i + 1,
         IF pollenTypes[i].inSeason /\ pollenTypes[i].healthRecommendations # <<>>
         THEN AddAll(recommendations, pollenTypes[i].healthRecommendations[1])
         ELSE recommendations)

\* consolidateHealthRecommendations: Array.from(set).slice(0, 5)
consolidateHealthRecommendationsAllTypes(pollenTypes) ==
  LET all == CollectAllTypes(pollenTypes, 1, <<>>)
  IN SubSeq(all, 1, Min(5, Len(all)))
consolidateHealthRecommendations(pollenTypes) ==
  LET all == Collect(pollenTypes, 1, <<>>)
  IN SubSeq(all, 1, Min(5, Len(all)))

\* calculateRiskTrend subtracts two scores, each the double nearest to a
\* number of tenths.  The double it gets is the exact difference except for
\* the pairs below (lower score, higher score, in tenths), whose difference
\* of 0.5, 1.0 or 2.0 comes out one or two units in the last place short.
ShortOfHalf == {<<2, 7>>, <<9, 14>>, <<18, 23>>, <<36, 41>>, <<77, 82>>}
ShortOfOne ==
  {<<4, 14>>, <<9, 19>>, <<13, 23>>, <<18, 28>>, <<31, 41>>, <<36, 46>>,
   <<72, 82>>, <<77, 87>>}
ShortOfTwo ==
  {<<3, 23>>, <<8, 28>>, <<13, 33>>, <<18, 38>>, <<21, 41>>, <<26, 46>>,
   <<31, 51>>, <<36, 56>>, <<62, 82>>, <<67, 87>>, <<72, 92>>, <<77, 97>>}

\* absDifference < limit/10 as the doubles compare, for scores in tenths
AbsDifferenceBelow(current, previous, limit, short) ==
  \/ Abs(current - previous) < limit
  \/ <<Min(current, previous), Max(current, previous)>> \in short

\* calculateRiskTrend, on the overallScore of the two days (in tenths);
\* scoreDifference is Math.round(difference * 10) / 10
calculateRiskTrend(currentScore, comparisonScore) ==
  LET difference == currentScore - comparisonScore
  IN [direction |->
        IF AbsDifferenceBelow(currentScore, comparisonScore, 5, ShortOfHalf)
        THEN "stable"
        ELSE IF difference > 0 THEN "worsening" ELSE "improving",
      magnitude |->
        IF AbsDifferenceBelow(currentScore, comparisonScore, 10, ShortOfOne)
        THEN "slight"
        ELSE IF AbsDifferenceBelow(currentScore, comparisonScore, 20, ShortOfTwo)
        THEN "moderate"
        ELSE "significant",
      scoreDifference |-> difference]

\* getTrend of the forecast hook: <<>> for null; dayIndex counts from 0
getTrend(forecast, dayIndex) ==
  IF dayIndex <= 0 \/ dayIndex >= Len(forecast) THEN <<>>
  ELSE <<calculateRiskTrend(forecast[dayIndex + 1], forecast[dayIndex])>>

----------------------------------------------------------------------------
(* Inputs of the risk engine calls.  One call is made per behaviour: the   *)
(* functions are pure, so a call's result does not depend on earlier calls. *)

OutOfRange == 2          \* how far inputs go beyond the valid ranges 0..5, 1..10
IndexInputs == (0 - OutOfRange) .. (5 + OutOfRange)
SensInputs == (1 - OutOfRange) .. (10 + OutOfRange)
MaxScoreIn == 900        \* getRiskLevel inputs, in hundredths: 0..MaxScoreIn
MaxMeasIndex == 6        \* measurement indices range over -1..MaxMeasIndex

ProfileVals == {1, 4, 6, 8, 10}
Profiles == [tree : ProfileVals, grass : ProfileVals, weed : ProfileVals]

\* one category of a measurement: not in pollenTypeInfo at all, present
\* without indexInfo, or present with an index value
CategoryInputs ==
  {[kind |-> "absent", value |-> 0], [kind |-> "noinfo", value |-> 0]}
  \cup {[kind |-> "index", value |-> v] : v \in -1 .. MaxMeasIndex}

\* the provider's pollenTypeInfo array for one choice per category
MeasurementOf(t, g, w) ==
  LET entry(code, c) ==
        IF c.kind = "absent" THEN <<>>
        ELSE <<[code |-> code, hasIndexInfo |-> c.kind = "index", value |-> c.value]>>
  IN [pollenTypeInfo |-> entry("TREE", t) \o entry("GRASS", g) \o entry("WEED", w)]

NoCall == [fn |-> "none"]

RiskInit == riskCall = NoCall

CallScore ==
  /\ riskCall.fn = "none"
  /\ \E p \in IndexInputs, s \in SensInputs :
       riskCall' = [fn |-> "calculatePollenRiskScore", pollenIndex |-> p,
                 userSensitivity |-> s, out |-> calculatePollenRiskScore(p, s)]

CallLevel ==
  /\ riskCall.fn = "none"
  /\ \E h \in 0 .. MaxScoreIn :
       riskCall' = [fn |-> "getRiskLevel", hundredths |-> h,
                 out |-> getRiskLevel(h, 100)]

\* entries of pollenTypeInfo with their season flag and advisories; an entry
\* can come without healthRecommendations
RecLists == {<<"a", "b", "c">>, <<"b", "d", "a">>, <<"e", "f", "b", "g">>, <<>>}
RecChoices ==
  {[inSeason |-> s, value |-> v, healthRecommendations |-> <<l>>] :
     s \in BOOLEAN, v \in {1, 4}, l \in RecLists}
  \cup {[inSeason |-> TRUE, value |-> 4, healthRecommendations |-> <<>>]}

RecEntry(code, c) ==
  [code |-> code, hasIndexInfo |-> TRUE, value |-> c.value,
   inSeason |-> c.inSeason, healthRecommendations |-> c.healthRecommendations]

\* calculatePersonalizedRisk on a day with advisories: the recommendations,
\* and the overall score beside the score of the same day with every
\* category in season
CallRecommendations ==
  /\ riskCall.fn = "none"
  /\ \E t \in RecChoices, g \in RecChoices, w \in RecChoices :
       LET info == <<RecEntry("TREE", t), RecEntry("GRASS", g), RecEntry("WEED", w)>>
           inSeasonInfo == [i \in 1 .. 3 |-> [info[i] EXCEPT !.inSeason = TRUE]]
           prof == [tree |-> 4, grass |-> 6, weed |-> 10]
       IN riskCall' =
            [fn |-> "consolidateHealthRecommendations",
             pollenTypeInfo |-> info,
             out |-> consolidateHealthRecommendations(info),
             overallScore |->
               calculatePersonalizedRisk([pollenTypeInfo |-> info], prof).overallScore,
             inSeasonScore |->
               calculatePersonalizedRisk([pollenTypeInfo |-> inSeasonInfo], prof).overallScore]

\* overall scores of forecast days, in tenths, and forecasts of up to
\* MaxTrendDays days
TrendScores == {2, 3, 4, 7, 12, 14, 23, 30}
MaxTrendDays == 3
TrendForecasts ==
  UNION {[1 .. n -> TrendScores] : n \in 0 .. MaxTrendDays}

CallTrend ==
  /\ riskCall.fn = "none"
  /\ \E forecast \in TrendForecasts, dayIndex \in (0 - 1) .. (MaxTrendDays + 1) :
       riskCall' = [fn |-> "getTrend", forecast |-> forecast,
                    dayIndex |-> dayIndex, out |-> getTrend(forecast, dayIndex)]

CallPersonalized ==
  /\ riskCall.fn = "none"
  /\ \E t \in CategoryInputs, g \in CategoryInputs, w \in CategoryInputs,
       prof \in Profiles :
       riskCall' = [fn |-> "calculatePersonalizedRisk", given |-> <<t, g, w>>,
                 userSensitivity |-> prof,
                 out |-> calculatePersonalizedRisk(MeasurementOf(t, g, w), prof)]


\* getActivityRecommendation: the recommendation for the day's overall level
getActivityRecommendationAvoidWhenHigh(processedData) ==
  CASE processedData.overallRisk = "low" -> "ideal"
    [] processedData.overallRisk = "moderate" -> "caution"
    [] processedData.overallRisk \in {"high", "very-high"} -> "avoid"
    [] OTHER -> "caution"
getActivityRecommendation(processedData) ==
  CASE processedData.overallRisk = "low" -> "ideal"
    [] processedData.overallRisk = "moderate" -> "caution"
    [] processedData.overallRisk = "high" -> "caution"
    [] processedData.overallRisk = "very-high" -> "avoid"
    [] OTHER -> "caution"

\* the indices the provider documents and the sensitivities the profile allows
ActivityIndices == 0 .. 5
ActivitySensitivities == 1 .. 10

\* getActivityRecommendation on the result of calculatePersonalizedRisk
CallActivity ==
  /\ riskCall.fn = "none"
  /\ \E t \in ActivityIndices, g \in ActivityIndices, w \in ActivityIndices,
        prof \in [tree : ActivitySensitivities, grass : ActivitySensitivities,
                  weed : ActivitySensitivities] :
       LET idx(v) == [kind |-> "index", value |-> v]
           processedData ==
             calculatePersonalizedRisk(MeasurementOf(idx(t), idx(g), idx(w)), prof)
       IN riskCall' = [fn |-> "getActivityRecommendation", given |-> <<t, g, w>>,
                       userSensitivity |-> prof, processedData |-> processedData,
                       out |-> getActivityRecommendation(processedData)]

----------------------------------------------------------------------------
(* Location service: services/locationService                              *)
(*                                                                         *)
(* The locations of the model lie on one meridian and are identified by    *)
(* pos, their arc length in metres from a reference point.  For two such   *)
(* points the haversine formula gives a central angle c of                 *)
(* |pos2 - pos1| / (R * 1000) radians for an Earth radius of R km.         *)

\* calculateDistance: R * c with R = 6371 in kilometres, so the result is in
\* kilometres: |pos2 - pos1| / 1000.  It is returned as the rational num/den.
calculateDistance(location1, location2) ==
  [num |-> Abs(location2.pos - location1.pos), den |-> 1000]

\* a < n for the rational a and the integer n
RatLess(a, n) == a.num < n * a.den

\* createLocationError: the kind of the error built from a message string
createLocationError(message) ==
  IF message = "Geolocation not supported by your browser"
  THEN "NOT_SUPPORTED"       \* the message includes 'not supported'
  ELSE "UNKNOWN_ERROR"

\* JSON written by saveLocationSettings and read back by loadLocationSettings;
\* an absent item is <<>>
DefaultLocationSettings ==
  [current |-> <<>>, useAutoDetection |-> TRUE, savedLocations |-> <<>>,
   lastDetectionTime |-> 0]

saveLocationSettingsWithoutSaved(settings) ==
  <<[settings EXCEPT !.savedLocations = <<>>]>>
saveLocationSettings(settings) == <<settings>>

loadLocationSettings(stored) ==
  IF stored = <<>> THEN DefaultLocationSettings
  ELSE [current |-> stored[1].current,
        useAutoDetection |-> stored[1].useAutoDetection,
        savedLocations |-> stored[1].savedLocations,
        lastDetectionTime |-> stored[1].lastDetectionTime]

----------------------------------------------------------------------------
(* Location hook: hooks/useLocation.ts                                     *)
(*                                                                         *)
(* An optional value (Location | null, current?: Location) is a sequence   *)
(* of length 0 or 1; error is "" for null; lastDetectionTime is 0 for      *)
(* undefined.  A callback created by useCallback reads the state of the    *)
(* render that created it: an asynchronous operation keeps that snapshot   *)
(* across its await, which locPending records.                             *)

\* LOCATION_HOOK_CONFIG.significantChangeDistance
SignificantChangeDistance == 1000

MaxPending == 2          \* detections in flight at once
MaxClock == 2            \* accepted detections per behaviour
MaxLocOps == 2           \* calls of the interface per behaviour

FarAway == 2000000
Positions == {0, 50, 5000, FarAway}     \* what the detector can report

DetectedLocation(p) == [pos |-> p, displayName |-> "", source |-> ""]
ManualLocation(p, name) == [pos |-> p, displayName |-> name, source |-> ""]

\* what the detector can reject with
DetectorErrors == {"PERMISSION_DENIED", "TIMEOUT"}

\* a coordinate as entered: a number of degrees, or text that parseFloat
\* turns into NaN
Deg(d) == [nan |-> FALSE, deg |-> d]
Unparsable == [nan |-> TRUE, deg |-> 0]

\* validateCoordinates, with LOCATION_CONFIG.bounds
validateCoordinates(latitude, longitude) ==
  /\ ~latitude.nan
  /\ ~longitude.nan
  /\ latitude.deg >= 0 - 90 /\ latitude.deg <= 90
  /\ longitude.deg >= 0 - 180 /\ longitude.deg <= 180

\* manual input: coordinates that parse and are in range (pos is where they
\* lie on the meridian of the model), text that does not parse, and
\* coordinates out of range
ManualInputs ==
  {[latitude |-> Deg(0), longitude |-> Deg(0), pos |-> 0, displayName |-> "Home"],
   [latitude |-> Deg(18), longitude |-> Deg(0), pos |-> FarAway, displayName |-> "Home"],
   [latitude |-> Unparsable, longitude |-> Deg(0), pos |-> 0, displayName |-> ""],
   [latitude |-> Deg(91), longitude |-> Deg(0), pos |-> 0, displayName |-> ""],
   [latitude |-> Deg(0), longitude |-> Deg(0 - 181), pos |-> 0, displayName |-> ""]}

\* parseManualLocation: <<location>> or the thrown error kind
parseManualLocationUnvalidated(input) ==
  [ok |-> TRUE, location |-> ManualLocation(input.pos, input.displayName),
   error |-> ""]
parseManualLocation(input) ==
  IF validateCoordinates(input.latitude, input.longitude)
  THEN [ok |-> TRUE, location |-> ManualLocation(input.pos, input.displayName),
        error |-> ""]
  ELSE [ok |-> FALSE, location |-> ManualLocation(0, ""),
        error |-> createLocationError("Coordinates out of valid range.")]

\* a saved list at the limit of saveLocation: ten places SavedSpacing metres
\* apart
SavedSpacing == 200000
FullList == [k \in 1 .. 10 |-> ManualLocation(k * SavedSpacing, "Saved")]

\* localStorage contents the application can have left behind
StoredSettings ==
  {<<>>}
  \cup {<<[current |-> <<DetectedLocation(0)>>, useAutoDetection |-> a,
           savedLocations |-> <<ManualLocation(5000, "Home")>>,
           lastDetectionTime |-> 0]>> : a \in BOOLEAN}
  \cup {<<[current |-> <<>>, useAutoDetection |-> FALSE,
           savedLocations |-> FullList, lastDetectionTime |-> 0]>>}

NoOp == [op |-> "none", detected |-> <<>>, accepted |-> FALSE,
         notified |-> <<>>, saved |-> <<>>, onError |-> ""]

\* useState initial value
InitialLocState(supported) ==
  [location |-> <<>>, isLoading |-> FALSE, error |-> "",
   settings |-> [current |-> <<>>, useAutoDetection |-> TRUE,
                 savedLocations |-> <<>>, lastDetectionTime |-> 0],
   isSupported |-> supported]

LocInit ==
  /\ \E supported \in BOOLEAN : loc = InitialLocState(supported)
  /\ locOpts \in [autoDetect : BOOLEAN]
  /\ locMounted = FALSE
  /\ locStored \in StoredSettings
  /\ locPending = <<>>
  /\ locClock = 0
  /\ locLast = NoOp
  /\ locOps = 0

\* the hook as built and never mounted
LocIdle ==
  /\ loc = InitialLocState(TRUE)
  /\ locOpts = [autoDetect |-> FALSE]
  /\ locMounted = FALSE
  /\ locStored = <<>>
  /\ locPending = <<>>
  /\ locClock = 0
  /\ locLast = NoOp
  /\ locOps = 0

\* the snapshot a detectLocation call keeps of the render it was created in
Closure(state) == [location |-> state.location, settings |-> state.settings]

\* the condition of the auto-detect effect, on the state of a render
AutoDetectEffect(state) ==
  /\ locOpts.autoDetect
  /\ state.settings.useAutoDetection
  /\ state.location = <<>>
  /\ state.isSupported

\* The effects of the first render, in order: the initialisation effect
\* loads the stored settings; the auto-detect effect then tests the state of
\* that first render (the useState initial value) and calls detectLocation,
\* which keeps that same snapshot.  The loaded settings make detectLocation
\* a new callback, so the auto-detect effect runs again on the loaded state.
LocMount ==
  /\ ~locMounted
  /\ locMounted' = TRUE
  /\ LET savedSettings == loadLocationSettings(locStored)
         loaded == [loc EXCEPT !.settings = savedSettings,
                               !.location = savedSettings.current]
         auto == AutoDetectEffect(loc)
         again == AutoDetectEffect(loaded)
     IN IF auto
        THEN /\ loc' = [loaded EXCEPT !.isLoading = TRUE, !.error = ""]
             /\ locPending' = IF again
                               THEN <<Closure(loc), Closure(loaded)>>
                               ELSE <<Closure(loc)>>
        ELSE /\ loc' = loaded
             /\ locPending' = locPending
  /\ locLast' = [NoOp EXCEPT !.op = "mount"]
  /\ UNCHANGED <<locOpts, locStored, locClock>>

\* detectLocation up to its await.  abortControllerRef.current is never
\* assigned, so there is nothing to abort and earlier calls stay in flight.
DetectLocation ==
  /\ locMounted
  /\ IF ~loc.isSupported
     THEN /\ loc' = [loc EXCEPT
                       !.error = createLocationError("Geolocation not supported by your browser"),
                       !.isLoading = FALSE]
          /\ locLast' = [NoOp EXCEPT !.op = "detectLocation",
                           !.onError = createLocationError("Geolocation not supported by your browser")]
          /\ UNCHANGED locPending
     ELSE /\ Len(locPending) < MaxPending
          /\ loc' = [loc EXCEPT !.isLoading = TRUE, !.error = ""]
          /\ locPending' = Append(locPending, Closure(loc))
          /\ locLast' = [NoOp EXCEPT !.op = "detectLocation"]
  /\ UNCHANGED <<locOpts, locMounted, locStored, locClock>>

RemoveAt(seq, i) == [j \in 1 .. (Len(seq) - 1) |-> IF j < i THEN seq[j] ELSE seq[j + 1]]

\* the significance test of detectLocation, on the snapshot's location
IsSignificant(currentLocation, location) ==
  \/ currentLocation = <<>>
  \/ ~RatLess(calculateDistance(currentLocation[1], location), SignificantChangeDistance)

\* detectLocation after detectCurrentLocation resolved with a position
DetectResolve(i, p) ==
  /\ i \in 1 .. Len(locPending)
  /\ LET location == DetectedLocation(p)
         snap == locPending[i]
     IN IF ~IsSignificant(snap.location, location)
        THEN /\ loc' = [loc EXCEPT !.isLoading = FALSE]
             /\ locLast' = [NoOp EXCEPT !.op = "detectResolve",
                              !.detected = <<location>>]
             /\ UNCHANGED <<locStored, locClock>>
        ELSE /\ locClock < MaxClock
             /\ locClock' = locClock + 1
             /\ LET newSettings == [snap.settings EXCEPT
                                      !.current = <<location>>,
                                      !.lastDetectionTime = locClock + 1]
                IN /\ loc' = [loc EXCEPT !.location = <<location>>,
                                         !.error = "", !.isLoading = FALSE,
                                         !.settings = newSettings]
                   /\ locStored' = saveLocationSettings(newSettings)
                   /\ locLast' = [NoOp EXCEPT !.op = "detectResolve",
                                    !.detected = <<location>>,
                                    !.accepted = TRUE,
                                    !.notified = <<location>>,
                                    !.saved = <<newSettings>>]
  /\ locPending' = RemoveAt(locPending, i)
  /\ UNCHANGED <<locOpts, locMounted>>

\* detectLocation after detectCurrentLocation rejected with a LocationError
DetectReject(i, e) ==
  /\ i \in 1 .. Len(locPending)
  /\ loc' = [loc EXCEPT !.error = e, !.isLoading = FALSE]
  /\ locLast' = [NoOp EXCEPT !.op = "detectReject", !.onError = e]
  /\ locPending' = RemoveAt(locPending, i)
  /\ UNCHANGED <<locOpts, locMounted, locStored, locClock>>

SetManualLocation(input) ==
  /\ locMounted
  /\ LET parsed == parseManualLocation(input)
     IN IF parsed.ok
        THEN LET newSettings == [loc.settings EXCEPT !.current = <<parsed.location>>]
             IN /\ loc' = [loc EXCEPT !.location = <<parsed.location>>,
                                      !.error = "", !.isLoading = FALSE,
                                      !.settings = newSettings]
                /\ locStored' = saveLocationSettings(newSettings)
                /\ locLast' = [NoOp EXCEPT !.op = "setManualLocation",
                                 !.notified = <<parsed.location>>,
                                 !.saved = <<newSettings>>]
        ELSE /\ loc' = [loc EXCEPT !.error = parsed.error, !.isLoading = FALSE]
             /\ locLast' = [NoOp EXCEPT !.op = "setManualLocation",
                              !.onError = parsed.error]
             /\ UNCHANGED locStored
  /\ UNCHANGED <<locOpts, locMounted, locPending, locClock>>

\* toggleAutoDetection, and the auto-detect effect that runs again because
\* the settings changed
ToggleAutoDetection ==
  /\ locMounted
  /\ LET newSettings == [loc.settings EXCEPT
                           !.useAutoDetection = ~loc.settings.useAutoDetection]
         new == [loc EXCEPT !.settings = newSettings]
     IN /\ IF AutoDetectEffect(new)
           THEN /\ Len(locPending) < MaxPending
                /\ loc' = [new EXCEPT !.isLoading = TRUE, !.error = ""]
                /\ locPending' = Append(locPending, Closure(new))
           ELSE /\ loc' = new
                /\ locPending' = locPending
        /\ locStored' = saveLocationSettings(newSettings)
        /\ locLast' = [NoOp EXCEPT !.op = "toggleAutoDetection",
                         !.saved = <<newSettings>>]
  /\ UNCHANGED <<locOpts, locMounted, locClock>>

\* detectLocation after detectCurrentLocation rejected with an Error named
\* AbortError
DetectAbortsLikeReject(i) == DetectReject(i, "UNKNOWN_ERROR")
DetectAborts(i) ==
  /\ i \in 1 .. Len(locPending)
  /\ loc' = [loc EXCEPT !.isLoading = FALSE]
  /\ locLast' = [NoOp EXCEPT !.op = "detectAbort"]
  /\ locPending' = RemoveAt(locPending, i)
  /\ UNCHANGED <<locOpts, locMounted, locStored, locClock>>

\* saveLocation: the distance below which a saved location is replaced, and
\* the most saved locations kept
SavedLocationRadius == 100
MaxSavedLocations == 10

\* the index of the first saved location within the radius, or 0
RECURSIVE FindSaved(_, _, _)
FindSaved(savedLocations, location, i) ==
  IF i > Len(savedLocations) THEN 0
  ELSE IF RatLess(calculateDistance(savedLocations[i], location), SavedLocationRadius)
  THEN i
  ELSE FindSaved(savedLocations, location, i + 1)

\* formatLocationDisplay: the display name, or the coordinates as text
formatLocationDisplay(location) ==
  IF location.displayName # "" THEN location.displayName
  ELSE ToString(location.pos)

\* saveLocation: the settings it builds from the settings of its render; name
\* is "" when the argument is left out
saveLocationUncapped(settings, location, name) ==
  LET locationWithName ==
        [location EXCEPT !.displayName =
           IF name # "" THEN name ELSE formatLocationDisplay(location)]
      existingIndex == FindSaved(settings.savedLocations, location, 1)
  IN [settings EXCEPT !.savedLocations =
        IF existingIndex > 0
        THEN [settings.savedLocations EXCEPT ![existingIndex] = locationWithName]
        ELSE Append(settings.savedLocations, locationWithName)]
saveLocation(settings, location, name) ==
  LET locationWithName ==
        [location EXCEPT !.displayName =
           IF name # "" THEN name ELSE formatLocationDisplay(location)]
      existingIndex == FindSaved(settings.savedLocations, location, 1)
      added == IF existingIndex > 0
               THEN [settings.savedLocations EXCEPT ![existingIndex] = locationWithName]
               ELSE Append(settings.savedLocations, locationWithName)
      savedLocations ==
        IF Len(added) > MaxSavedLocations
        THEN SubSeq(added, Len(added) - MaxSavedLocations + 1, Len(added))
        ELSE added
  IN [settings EXCEPT !.savedLocations = savedLocations]

\* the places the city search can return
Cities == {[pos |-> 5000, name |-> "Paris"], [pos |-> FarAway, name |-> "Oslo"]}

CityLocation(city) == [pos |-> city.pos, displayName |-> city.name, source |-> "manual"]

\* setCityLocation: it writes the settings with the city and auto-detection
\* off, then calls saveLocation, a callback of the same render, which builds
\* its settings from that render's state.settings and writes them last
SetCityLocation(city) ==
  /\ locMounted
  /\ LET location == CityLocation(city)
         newSettings == saveLocation(loc.settings, location, city.name)
     IN /\ loc' = [loc EXCEPT !.location = <<location>>,
                              !.error = "", !.isLoading = FALSE,
                              !.settings = newSettings]
        /\ locStored' = saveLocationSettings(newSettings)
        /\ locLast' = [NoOp EXCEPT !.op = "setCityLocation",
                         !.notified = <<location>>,
                         !.saved = <<newSettings>>]
  /\ UNCHANGED <<locOpts, locMounted, locPending, locClock>>

\* a render with new settings: detectLocation is a new callback, so the
\* auto-detect effect runs again on the new state
Rerender(new) ==
  IF AutoDetectEffect(new)
  THEN /\ Len(locPending) < MaxPending
       /\ loc' = [new EXCEPT !.isLoading = TRUE, !.error = ""]
       /\ locPending' = Append(locPending, Closure(new))
  ELSE /\ loc' = new
       /\ locPending' = locPending

\* the locations and names the interface passes to saveLocation
SaveInputs ==
  {[location |-> ManualLocation(0, "Pinned"), name |-> "Work"],
   [location |-> DetectedLocation(105000), name |-> ""],
   [location |-> ManualLocation(104950, ""), name |-> "Gym"]}

\* saveLocation called by the interface
SaveLocation(in) ==
  /\ locMounted
  /\ LET newSettings == saveLocation(loc.settings, in.location, in.name)
     IN /\ Rerender([loc EXCEPT !.settings = newSettings])
        /\ locStored' = saveLocationSettings(newSettings)
        /\ locLast' = [NoOp EXCEPT !.op = "saveLocation",
                         !.saved = <<newSettings>>]
  /\ UNCHANGED <<locOpts, locMounted, locClock>>

\* Array.prototype.splice(index, 1): a negative index counts from the end,
\* an index past the end removes nothing
Splice1(seq, index) ==
  LET start == IF index < 0 THEN Max(Len(seq) + index, 0) ELSE Min(index, Len(seq))
  IN IF start >= Len(seq) THEN seq ELSE RemoveAt(seq, start + 1)

RemoveIndexes == {0 - 1, 0, 1}

\* removeLocation
RemoveLocation(index) ==
  /\ locMounted
  /\ LET newSettings ==
           [loc.settings EXCEPT
              !.savedLocations = Splice1(loc.settings.savedLocations, index)]
     IN /\ Rerender([loc EXCEPT !.settings = newSettings])
        /\ locStored' = saveLocationSettings(newSettings)
        /\ locLast' = [NoOp EXCEPT !.op = "removeLocation",
                         !.saved = <<newSettings>>]
  /\ UNCHANGED <<locOpts, locMounted, locClock>>

\* the entries of the saved list the interface selects in the model
SelectIndexes == {1, 3}

\* selectSavedLocation, given the i-th saved location
SelectSavedLocation(i) ==
  /\ locMounted
  /\ i \in 1 .. Len(loc.settings.savedLocations)
  /\ LET location == loc.settings.savedLocations[i]
         newSettings == [loc.settings EXCEPT !.current = <<location>>]
     IN /\ loc' = [loc EXCEPT !.location = <<location>>, !.error = "",
                              !.isLoading = FALSE,
                              !.settings = newSettings]
        /\ locStored' = saveLocationSettings(newSettings)
        /\ locLast' = [NoOp EXCEPT !.op = "selectSavedLocation",
                         !.notified = <<location>>,
                         !.saved = <<newSettings>>]
  /\ UNCHANGED <<locOpts, locMounted, locPending, locClock>>

----------------------------------------------------------------------------
(* Pollen API service: services/pollenApi (fetchPollenForecast, withRetry)  *)

\* POLLEN_API_CONFIG.retryAttempts
RetryAttempts == 2

MaxDays == 1             \* days the provider returns: 0..MaxDays
MaxRequests == 3         \* fetchData calls that reach the provider, per behaviour

\* what can be thrown inside fetchPollenForecast
Thrown == {"AbortError", "TypeError", "Response401", "Response403",
           "Response429", "Response404", "Response500", "NoDailyInfo"}

\* createPollenError: the kind of the PollenError made from what was thrown.
\* A DOMException named AbortError is no TypeError and no Response and has
\* no 'type' property, so it ends as UNKNOWN_ERROR; a Response with another
\* status has a 'type' property and is returned as it is.
createPollenError(thrown) ==
  CASE thrown = "TypeError" -> "NETWORK_ERROR"
    [] thrown \in {"Response401", "Response403"} -> "API_KEY_INVALID"
    [] thrown = "Response429" -> "API_RATE_LIMIT"
    [] thrown = "Response404" -> "NO_DATA_AVAILABLE"
    [] thrown = "Response500" -> "Response"
    [] thrown = "NoDailyInfo" -> "NO_DATA_AVAILABLE"
    [] OTHER -> "UNKNOWN_ERROR"

\* withRetry: no retry on 401, 403, 429 nor on the final attempt
RetriesAfter(thrown, attempt) ==
  /\ thrown \notin {"Response401", "Response403", "Response429"}
  /\ attempt # RetryAttempts

\* the measurement the provider reports for day d
ProviderDay(d) ==
  MeasurementOf([kind |-> "index", value |-> 5 - d],
                [kind |-> "index", value |-> d + 1],
                [kind |-> "noinfo", value |-> 0])

----------------------------------------------------------------------------
(* Forecast hook: hooks/usePollenData.ts                                    *)
(*                                                                         *)
(* A coordinate is held in units of 1e-7 degrees, so that toFixed(6)       *)
(* rounds.  An optional value is a sequence of length 0 or 1; error is ""  *)
(* for null.                                                               *)

\* Number.prototype.toFixed(6) of a coordinate: the nearest multiple of 1e-6,
\* a half rounding away from zero
ToFixed6(c7) == IF c7 < 0 THEN 0 - MathRound(0 - c7, 10) ELSE MathRound(c7, 10)

\* the fetchId string of fetchData
FetchId(in) ==
  <<ToFixed6(in.location.lat7), ToFixed6(in.location.lng7), in.days, in.sensitivity>>

FetchLocations ==
  {[lat7 |-> 10, lng7 |-> -30, displayName |-> "Here"],
   [lat7 |-> 14, lng7 |-> -30, displayName |-> "Here"]}

\* the arguments of fetchData: (location, sensitivity, days = 3)
FetchInputs ==
  {[location |-> l, sensitivity |-> [tree |-> 5, grass |-> 5, weed |-> 5], days |-> 3] :
     l \in FetchLocations}
  \cup {[location |-> [lat7 |-> 10, lng7 |-> -30, displayName |-> "Here"],
         sensitivity |-> [tree |-> 10, grass |-> 10, weed |-> 10], days |-> 3]}

\* processPollenData: every returned day through calculatePersonalizedRisk
processPollenData(n, sensitivity, location) ==
  [d \in 1 .. n |->
     LET r == calculatePersonalizedRisk(ProviderDay(d), sensitivity)
     IN [date |-> d, location |-> location.displayName,
         overallRisk |-> r.overallRisk, overallScore |-> r.overallScore]]

NoReq == [phase |-> "done", input |-> <<>>, attempt |-> 0,
          outerAborted |-> FALSE, innerAborted |-> FALSE, listening |-> FALSE]

NoStep == [op |-> "none", id |-> 0, skipped |-> FALSE, provider |-> FALSE,
           onError |-> "", onDataUpdate |-> FALSE, days |-> <<>>]

\* useState initial value
InitialFetchState ==
  [current |-> <<>>, forecast |-> <<>>, isLoading |-> FALSE,
   isRefreshing |-> FALSE, error |-> "", lastUpdated |-> <<>>,
   location |-> <<>>]

FetchInit ==
  /\ fs = InitialFetchState
  /\ lastFetchId = <<>>
  /\ abortCtl = 0
  /\ lastFetchParams = <<>>
  /\ reqs = <<>>
  /\ fetchLast = NoStep

\* AbortController.abort() on the controller of request c: the signal's
\* 'abort' listeners run; the attempt in progress has one only if it was
\* started before the signal was aborted
AbortRequest(rs, c) ==
  IF c = 0 THEN rs
  ELSE [rs EXCEPT ![c] =
          IF @.phase = "done" THEN @
          ELSE [@ EXCEPT !.outerAborted = TRUE,
                         !.innerAborted =
                            @ \/ (rs[c].listening /\ rs[c].phase \in {"attempt", "json"})]]

\* the flags fetchData sets before the request: the spinner when there is no
\* data, the refresh indicator when there is
StartFlagsSpinnerAlways(prevState) ==
  [prevState EXCEPT !.isLoading = TRUE,
                    !.isRefreshing = (prevState.current # <<>>),
                    !.error = ""]
StartFlags(prevState) ==
  [prevState EXCEPT !.isLoading = (prevState.current = <<>>),
                    !.isRefreshing = (prevState.current # <<>>),
                    !.error = ""]

\* fetchData up to the await: duplicate suppression, abort of the previous
\* controller, the flags, and fetchPollenForecast up to its first fetch()
FetchData(in) ==
  IF lastFetchId = <<FetchId(in)>>
  THEN /\ fetchLast' = [NoStep EXCEPT !.op = "fetchData", !.skipped = TRUE]
       /\ UNCHANGED <<fs, lastFetchId, abortCtl, lastFetchParams, reqs>>
  ELSE /\ Len(reqs) < MaxRequests
       /\ lastFetchId' = <<FetchId(in)>>
       /\ reqs' = Append(AbortRequest(reqs, abortCtl),
                         [phase |-> "attempt", input |-> <<in>>, attempt |-> 1,
                          outerAborted |-> FALSE, innerAborted |-> FALSE,
                          listening |-> TRUE])
       /\ abortCtl' = Len(reqs) + 1
       /\ fs' = StartFlags(fs)
       /\ lastFetchParams' = <<in>>
       /\ fetchLast' = [NoStep EXCEPT !.op = "fetchData", !.id = Len(reqs) + 1,
                                      !.provider = TRUE]

\* fetchData after the await: the response was processed
FetchSucceedsStoringEmpty(id, n) ==
  LET in == reqs[id].input[1]
      processedData == processPollenData(n, in.sensitivity, in.location)
  IN /\ fs' = [current |-> IF n = 0 THEN <<>> ELSE <<processedData[1]>>,
               forecast |-> processedData,
               isLoading |-> FALSE, isRefreshing |-> FALSE, error |-> "",
               lastUpdated |-> <<id>>, location |-> <<in.location>>]
     /\ lastFetchId' = <<>>
     /\ fetchLast' = [NoStep EXCEPT !.op = "settle", !.id = id,
                                    !.onDataUpdate = TRUE, !.days = <<n>>]
FetchSucceeds(id, n) ==
  LET in == reqs[id].input[1]
      processedData == processPollenData(n, in.sensitivity, in.location)
  IN IF Len(processedData) = 0
     THEN \* throws a NO_DATA_AVAILABLE PollenError, caught below
          /\ lastFetchId' = <<>>
          /\ fs' = [fs EXCEPT !.error = "NO_DATA_AVAILABLE",
                              !.isLoading = FALSE, !.isRefreshing = FALSE]
          /\ fetchLast' = [NoStep EXCEPT !.op = "settle", !.id = id,
                                         !.onError = "NO_DATA_AVAILABLE",
                                         !.days = <<n>>]
     ELSE /\ fs' = [current |-> <<processedData[1]>>, forecast |-> processedData,
                    isLoading |-> FALSE, isRefreshing |-> FALSE, error |-> "",
                    lastUpdated |-> <<id>>, location |-> <<in.location>>]
          /\ lastFetchId' = <<>>
          /\ fetchLast' = [NoStep EXCEPT !.op = "settle", !.id = id,
                                         !.onDataUpdate = TRUE, !.days = <<n>>]

\* fetchData's catch: fetchPollenForecast rejects with the PollenError made
\* by createPollenError, a plain object and never an Error named AbortError
FetchFailsKeepingKey(id, thrown) ==
  LET pollenError == createPollenError(thrown)
  IN /\ lastFetchId' = lastFetchId
     /\ fs' = [fs EXCEPT !.error = pollenError,
                         !.isLoading = FALSE, !.isRefreshing = FALSE]
     /\ fetchLast' = [NoStep EXCEPT !.op = "settle", !.id = id,
                                    !.onError = pollenError]
FetchFails(id, thrown) ==
  LET pollenError == createPollenError(thrown)
  IN /\ lastFetchId' = <<>>
     /\ fs' = [fs EXCEPT !.error = pollenError,
                         !.isLoading = FALSE, !.isRefreshing = FALSE]
     /\ fetchLast' = [NoStep EXCEPT !.op = "settle", !.id = id,
                                    !.onError = pollenError]

\* what fetch() of an attempt can end with: an aborted controller rejects
\* with AbortError; otherwise a response, a network failure, or the abort by
\* the attempt's own timeout
AttemptOutcomes(r) ==
  IF r.innerAborted THEN {"AbortError"}
  ELSE {"ok", "AbortError", "TypeError", "Response401", "Response429",
        "Response404", "Response500"}

\* one attempt of withRetry settles
AttemptSettles(id, out) ==
  /\ id \in 1 .. Len(reqs)
  /\ reqs[id].phase = "attempt"
  /\ out \in AttemptOutcomes(reqs[id])
  /\ IF out = "ok"
     THEN /\ reqs' = [reqs EXCEPT ![id].phase = "json"]
          /\ fetchLast' = [NoStep EXCEPT !.op = "response", !.id = id]
          /\ UNCHANGED <<fs, lastFetchId>>
     ELSE IF RetriesAfter(out, reqs[id].attempt)
     THEN /\ reqs' = [reqs EXCEPT ![id].phase = "backoff",
                                  ![id].innerAborted = FALSE,
                                  ![id].listening = FALSE]
          /\ fetchLast' = [NoStep EXCEPT !.op = "backoff", !.id = id]
          /\ UNCHANGED <<fs, lastFetchId>>
     ELSE /\ reqs' = [reqs EXCEPT ![id] = NoReq]
          /\ FetchFails(id, out)
  /\ UNCHANGED <<abortCtl, lastFetchParams>>

\* the backoff delay of withRetry ends and the next attempt calls fetch()
\* with a new controller; its listener on an already aborted signal never runs
NextAttempt(id) ==
  /\ id \in 1 .. Len(reqs)
  /\ reqs[id].phase = "backoff"
  /\ reqs' = [reqs EXCEPT ![id].phase = "attempt",
                          ![id].attempt = @ + 1,
                          ![id].innerAborted = FALSE,
                          ![id].listening = ~reqs[id].outerAborted]
  /\ fetchLast' = [NoStep EXCEPT !.op = "attempt", !.id = id, !.provider = TRUE]
  /\ UNCHANGED <<fs, lastFetchId, abortCtl, lastFetchParams>>

\* response.json() settles: the body of n days, a body without dailyInfo, or
\* AbortError when the attempt's controller was aborted meanwhile
BodySettles(id, n, valid) ==
  /\ id \in 1 .. Len(reqs)
  /\ reqs[id].phase = "json"
  /\ reqs' = [reqs EXCEPT ![id] = NoReq]
  /\ IF reqs[id].innerAborted THEN FetchFails(id, "AbortError")
     ELSE IF ~valid THEN FetchFails(id, "NoDailyInfo")
     ELSE FetchSucceeds(id, n)
  /\ UNCHANGED <<abortCtl, lastFetchParams>>

\* refreshData / retry: fetchData with the last parameters
RefreshData ==
  /\ lastFetchParams # <<>>
  /\ FetchData(lastFetchParams[1])

----------------------------------------------------------------------------
(* Storage service: services/storageService (sensitivity part)              *)
(*                                                                         *)
(* A sensitivity value is a record: nan tells NaN from a number, v is the   *)
(* number in tenths (50 is 5.0).  A profile has the fields tree, grass and  *)
(* weed.                                                                   *)

Num(v) == [nan |-> FALSE, v |-> v]
NaN == [nan |-> TRUE, v |-> 0]
Profile(t, g, w) == [tree |-> Num(t), grass |-> Num(g), weed |-> Num(w)]

\* DEFAULT_SENSITIVITY: 5, 5, 5
DEFAULT_SENSITIVITY == Profile(50, 50, 50)

\* validateSensitivityProfile: three numbers within 1..10; a comparison with
\* NaN is false
InStorageRange(x) == ~x.nan /\ x.v >= 10 /\ x.v <= 100
validateSensitivityProfile(sensitivity) ==
  /\ InStorageRange(sensitivity.tree)
  /\ InStorageRange(sensitivity.grass)
  /\ InStorageRange(sensitivity.weed)

\* loadUserProfile: the sensitivity of the profile it returns, and what
\* storage holds afterwards (an invalid stored profile is written back with
\* the defaults when storage accepts the write)
loadUserProfile(stored, ok) ==
  IF ~ok \/ stored = <<>>
  THEN [sensitivity |-> DEFAULT_SENSITIVITY, stored |-> stored]
  ELSE IF validateSensitivityProfile(stored[1])
  THEN [sensitivity |-> stored[1], stored |-> stored]
  ELSE [sensitivity |-> DEFAULT_SENSITIVITY, stored |-> <<DEFAULT_SENSITIVITY>>]

\* updateSensitivityProfile: whether it succeeded and what storage holds
\* afterwards; ok tells whether localStorage is available and takes the write
updateSensitivityProfile(sensitivity, stored, ok) ==
  IF ~validateSensitivityProfile(sensitivity)
  THEN [success |-> FALSE, stored |-> stored]
  ELSE IF ok THEN [success |-> TRUE, stored |-> <<sensitivity>>]
  ELSE [success |-> FALSE, stored |-> loadUserProfile(stored, ok).stored]

----------------------------------------------------------------------------
(* Sensitivity hook: hooks/useSensitivity.ts                                *)
(*                                                                         *)
(* Every edit makes a new sensitivity object, so saveChanges is a new       *)
(* callback after every edit and the auto-save effect runs again: the       *)
(* callback a pending timeout holds always sees the state as it is.         *)

\* SENSITIVITY_CONFIG.autoSaveDelay
AutoSaveDelay == 1000

TickMs == 200            \* the step of time
MaxBurst == 2            \* edits of one run are counted up to this

\* isValidSensitivityValue: an integer within minValue..maxValue
isValidSensitivityValue(value) ==
  ~value.nan /\ value.v % 10 = 0 /\ value.v >= 10 /\ value.v <= 100

validateSensitivity(sensitivity) ==
  /\ validateSensitivityProfile(sensitivity)
  /\ isValidSensitivityValue(sensitivity.tree)
  /\ isValidSensitivityValue(sensitivity.grass)
  /\ isValidSensitivityValue(sensitivity.weed)

\* normalizeSensitivityValue: Math.max(1, Math.min(10, Math.round(value)));
\* Math.round, Math.min and Math.max of NaN are NaN
normalizeSensitivityValueNoClamp(value) ==
  IF value.nan THEN NaN ELSE Num(10 * MathRound(value.v, 10))
normalizeSensitivityValue(value) ==
  IF value.nan THEN NaN
  ELSE Num(10 * Max(1, Min(10, MathRound(value.v, 10))))

\* the values a setter is called with: below the range, a half, a fraction,
\* above the range, and NaN
SetterInputs == {NaN, Num(0 - 30), Num(45), Num(74), Num(120)}

\* the partial profiles setSensitivity is called with; a field is absent (<<>>)
\* or present, and a present undefined value rounds to NaN
PartialInputs ==
  {[tree |-> <<Num(74)>>, grass |-> <<>>, weed |-> <<Num(26)>>],
   [tree |-> <<>>, grass |-> <<NaN>>, weed |-> <<>>]}

\* what localStorage holds when the hook mounts: nothing, a valid profile,
\* one with a fraction, one out of range
StoredProfiles ==
  {<<>>, <<Profile(70, 50, 50)>>, <<Profile(45, 50, 50)>>, <<Profile(110, 50, 50)>>}

\* result is what updateSensitivityProfile did when it was called ("true",
\* "false", "throws"); returned is what saveChanges resolved with
NoSensOp == [op |-> "none", profile |-> <<>>, called |-> <<>>, notified |-> FALSE,
             result |-> "", returned |-> ""]
NoBurst == [n |-> 0, valid |-> TRUE, calls |-> 0, differs |-> FALSE]

\* useState initial values
InitialSensState ==
  [sensitivity |-> DEFAULT_SENSITIVITY, hasChanges |-> FALSE, isDirty |-> FALSE,
   isLoading |-> TRUE, isSaving |-> FALSE, error |-> "", isValid |-> TRUE]

SensInit ==
  /\ sens = InitialSensState
  /\ sensOriginal = DEFAULT_SENSITIVITY
  /\ sensOpts \in [autoSave : BOOLEAN]
  /\ sensMounted = FALSE
  /\ sensStored \in StoredProfiles
  /\ sensTimer = <<>>
  /\ sensQuiet = AutoSaveDelay
  /\ sensBurst = NoBurst
  /\ sensLast = NoSensOp

SensIdle ==
  /\ sens = InitialSensState
  /\ sensOriginal = DEFAULT_SENSITIVITY
  /\ sensOpts = [autoSave |-> TRUE]
  /\ sensMounted = FALSE
  /\ sensStored = <<>>
  /\ sensTimer = <<>>
  /\ sensQuiet = AutoSaveDelay
  /\ sensBurst = NoBurst
  /\ sensLast = NoSensOp

\* the auto-save effect after a render: it runs again when one of its
\* dependencies changed (newCallback: saveChanges is a new callback); its
\* cleanup clears the pending timeout, and it sets a new one only with
\* auto-save on, changes pending, a valid profile and loading over
AutoSaveEffectIgnoringCleanup(timer, old, new, newCallback) ==
  IF timer # <<>> THEN timer
  ELSE IF sensOpts.autoSave /\ new.hasChanges /\ new.isValid /\ ~new.isLoading
  THEN <<AutoSaveDelay>> ELSE <<>>
AutoSaveEffect(timer, old, new, newCallback) ==
  IF \/ newCallback
     \/ old.hasChanges # new.hasChanges
     \/ old.isValid # new.isValid
     \/ old.isLoading # new.isLoading
  THEN IF ~sensOpts.autoSave \/ ~new.hasChanges \/ ~new.isValid \/ new.isLoading
       THEN <<>>
       ELSE <<AutoSaveDelay>>
  ELSE timer

\* the load effect of the first render
SensMount ==
  /\ ~sensMounted
  /\ sensMounted' = TRUE
  /\ \E ok \in BOOLEAN :
       LET userProfile == loadUserProfile(sensStored, ok)
           validatedSensitivity ==
             IF validateSensitivity(userProfile.sensitivity)
             THEN userProfile.sensitivity ELSE DEFAULT_SENSITIVITY
           new == [sens EXCEPT !.sensitivity = validatedSensitivity,
                               !.isLoading = FALSE, !.hasChanges = FALSE,
                               !.isDirty = FALSE, !.isValid = TRUE]
       IN /\ sensStored' = userProfile.stored
          /\ sensOriginal' = validatedSensitivity
          /\ sens' = new
          /\ sensTimer' = AutoSaveEffect(sensTimer, sens, new, TRUE)
  /\ sensLast' = [NoSensOp EXCEPT !.op = "mount"]
  /\ UNCHANGED <<sensOpts, sensQuiet, sensBurst>>

\* JSON.stringify of a profile: the three fields in their order, NaN as null
JSONstringify(sensitivity) ==
  <<IF sensitivity.tree.nan THEN <<>> ELSE <<sensitivity.tree.v>>,
    IF sensitivity.grass.nan THEN <<>> ELSE <<sensitivity.grass.v>>,
    IF sensitivity.weed.nan THEN <<>> ELSE <<sensitivity.weed.v>>>>

\* the change test of updateSensitivity
HasChangesAfterAnyEdit(newSensitivity, original) == TRUE
HasChanges(newSensitivity, original) ==
  JSONstringify(newSensitivity) # JSONstringify(original)

\* updateSensitivity, with the render and the auto-save effect that follow
updateSensitivity(newSensitivity, op) ==
  LET isValid == validateSensitivity(newSensitivity)
      hasChanges == HasChanges(newSensitivity, sensOriginal)
      new == [sens EXCEPT !.sensitivity = newSensitivity,
                          !.isValid = isValid,
                          !.hasChanges = hasChanges,
                          !.isDirty = hasChanges,
                          !.error = IF isValid THEN ""
                                    ELSE "Invalid sensitivity values"]
      newRun == sensBurst.n = 0 \/ (sensQuiet >= AutoSaveDelay /\ sensTimer = <<>>)
  IN /\ sensMounted
     /\ sens' = new
     /\ sensTimer' = AutoSaveEffect(sensTimer, sens, new, TRUE)
     /\ sensQuiet' = 0
     /\ sensBurst' =
          IF newRun
          THEN [n |-> 1, valid |-> isValid, calls |-> 0, differs |-> hasChanges]
          ELSE [n |-> Min(sensBurst.n + 1, MaxBurst),
                valid |-> sensBurst.valid /\ isValid,
                calls |-> sensBurst.calls, differs |-> hasChanges]
     /\ sensLast' = [NoSensOp EXCEPT !.op = op, !.profile = <<newSensitivity>>,
                                     !.notified = isValid]
     /\ UNCHANGED <<sensOriginal, sensOpts, sensMounted, sensStored>>

SetTreeSensitivity(value) ==
  updateSensitivity([sens.sensitivity EXCEPT !.tree = normalizeSensitivityValue(value)],
                    "setTreeSensitivity")

SetGrassSensitivity(value) ==
  updateSensitivity([sens.sensitivity EXCEPT !.grass = normalizeSensitivityValue(value)],
                    "setGrassSensitivity")

SetWeedSensitivity(value) ==
  updateSensitivity([sens.sensitivity EXCEPT !.weed = normalizeSensitivityValue(value)],
                    "setWeedSensitivity")

SetSensitivity(partialSensitivity) ==
  LET newSensitivity ==
        [k \in {"tree", "grass", "weed"} |->
           IF partialSensitivity[k] = <<>> THEN sens.sensitivity[k]
           ELSE partialSensitivity[k][1]]
  IN updateSensitivity([k \in {"tree", "grass", "weed"} |->
                          normalizeSensitivityValue(newSensitivity[k])],
                       "setSensitivity")

ResetToDefaults == updateSensitivity(DEFAULT_SENSITIVITY, "resetToDefaults")

DiscardChanges == updateSensitivity(sensOriginal, "discardChanges")

\* the early return of saveChanges
SaveReturnsEarlyIgnoringValidity(state) == ~state.hasChanges
SaveReturnsEarly(state) == ~state.hasChanges \/ ~state.isValid

\* what updateSensitivityProfile can do when saveChanges calls it: store the
\* profile, report a failed write, or throw
StorageOutcomes == {"ok", "fails", "throws"}

\* the state saveChanges leaves after a successful save
SavedStateKeepingChanges(state) == [state EXCEPT !.isSaving = FALSE, !.error = ""]
SavedState(state) ==
  [state EXCEPT !.isSaving = FALSE, !.hasChanges = FALSE, !.isDirty = FALSE,
                !.error = ""]

\* the state saveChanges leaves after a failed save
FailedStateDroppingChanges(state, message) ==
  [state EXCEPT !.isSaving = FALSE, !.hasChanges = FALSE, !.error = message]
FailedState(state, message) ==
  [state EXCEPT !.isSaving = FALSE, !.error = message]

\* saveChanges; it has no await, so it runs in one piece.  timer is the
\* timeout pending when it is called
saveChanges(op, timer, outcome) ==
  IF SaveReturnsEarly(sens)
  THEN /\ sensLast' = [NoSensOp EXCEPT !.op = op, !.returned = "true"]
       /\ sensTimer' = timer
       /\ UNCHANGED <<sens, sensOriginal, sensStored>>
  ELSE IF outcome = "throws"
  THEN LET new == FailedState(sens,
                     "Unable to save settings. Please check your browser storage.")
       IN /\ sens' = new
          /\ sensTimer' = AutoSaveEffect(timer, sens, new, FALSE)
          /\ sensLast' = [NoSensOp EXCEPT !.op = op, !.called = <<sens.sensitivity>>,
                                          !.result = "throws", !.returned = "false"]
          /\ UNCHANGED <<sensOriginal, sensStored>>
  ELSE LET result == updateSensitivityProfile(sens.sensitivity, sensStored,
                                              outcome = "ok")
           new == IF result.success
                  THEN SavedState(sens)
                  ELSE FailedState(sens,
                          "Failed to save sensitivity settings. Please try again.")
       IN /\ sensStored' = result.stored
          /\ sensOriginal' = IF result.success THEN sens.sensitivity ELSE sensOriginal
          /\ sens' = new
          /\ sensTimer' = AutoSaveEffect(timer, sens, new, FALSE)
          /\ sensLast' = [NoSensOp EXCEPT
                            !.op = op, !.called = <<sens.sensitivity>>,
                            !.result = IF result.success THEN "true" ELSE "false",
                            !.returned = IF result.success THEN "true" ELSE "false"]

\* saveChanges called by the interface
SaveChanges ==
  /\ sensMounted
  /\ \E outcome \in StorageOutcomes : saveChanges("saveChanges", sensTimer, outcome)
  /\ sensBurst' = NoBurst
  /\ UNCHANGED <<sensOpts, sensMounted, sensQuiet>>

\* the auto-save timeout runs saveChanges
AutoSaveFires ==
  /\ sensTimer = <<0>>
  /\ \E outcome \in StorageOutcomes : saveChanges("autoSave", <<>>, outcome)
  /\ sensBurst' = [sensBurst EXCEPT !.calls =
                     IF sensLast'.called # <<>> THEN Min(@ + 1, 2) ELSE @]
  /\ UNCHANGED <<sensOpts, sensMounted, sensQuiet>>

\* time passes; a timeout that is due runs before more time passes
SensTick ==
  /\ sensMounted
  /\ sensTimer # <<0>>
  /\ sensTimer # <<>> \/ sensQuiet < AutoSaveDelay
  /\ sensTimer' = IF sensTimer = <<>> THEN <<>>
                  ELSE <<Max(0, sensTimer[1] - TickMs)>>
  /\ sensQuiet' = Min(sensQuiet + TickMs, AutoSaveDelay)
  /\ UNCHANGED <<sens, sensOriginal, sensOpts, sensMounted, sensStored,
                 sensBurst, sensLast>>

----------------------------------------------------------------------------
(* Specifications: one per component; the other components stay as built *)

vars == <<riskVars, locVars, fetchVars, sensVars>>

InitRisk == RiskInit /\ LocIdle /\ FetchInit /\ SensIdle
NextRisk ==
  \/ CallScore /\ UNCHANGED <<locVars, fetchVars, sensVars>>
  \/ CallLevel /\ UNCHANGED <<locVars, fetchVars, sensVars>>
  \/ CallPersonalized /\ UNCHANGED <<locVars, fetchVars, sensVars>>
  \/ CallRecommendations /\ UNCHANGED <<locVars, fetchVars, sensVars>>
  \/ CallTrend /\ UNCHANGED <<locVars, fetchVars, sensVars>>
  \/ CallActivity /\ UNCHANGED <<locVars, fetchVars, sensVars>>
SpecRisk == InitRisk /\ [][NextRisk]_vars

InitLoc == LocInit /\ RiskInit /\ FetchInit /\ SensIdle
\* a call made by the interface, counted; a step of the hook's own
Called ==
  /\ locOps < MaxLocOps
  /\ locOps' = locOps + 1
  /\ UNCHANGED <<riskVars, fetchVars, sensVars>>
Internal == UNCHANGED <<locOps, riskVars, fetchVars, sensVars>>

NextLoc ==
  \/ LocMount /\ Internal
  \/ DetectLocation /\ Called
  \/ \E i \in 1 .. MaxPending, p \in Positions : DetectResolve(i, p) /\ Internal
  \/ \E i \in 1 .. MaxPending, e \in DetectorErrors : DetectReject(i, e) /\ Internal
  \/ \E input \in ManualInputs : SetManualLocation(input) /\ Called
  \/ ToggleAutoDetection /\ Called
  \/ \E i \in 1 .. MaxPending : DetectAborts(i) /\ Internal
  \/ \E city \in Cities : SetCityLocation(city) /\ Called
  \/ \E in \in SaveInputs : SaveLocation(in) /\ Called
  \/ \E index \in RemoveIndexes : RemoveLocation(index) /\ Called
  \/ \E i \in SelectIndexes : SelectSavedLocation(i) /\ Called
SpecLoc == InitLoc /\ [][NextLoc]_vars

InitFetch == FetchInit /\ RiskInit /\ LocIdle /\ SensIdle
NextFetch ==
  \/ \E in \in FetchInputs : FetchData(in) /\ UNCHANGED <<riskVars, locVars, sensVars>>
  \/ RefreshData /\ UNCHANGED <<riskVars, locVars, sensVars>>
  \/ \E id \in 1 .. MaxRequests, out \in Thrown \cup {"ok"} :
       AttemptSettles(id, out) /\ UNCHANGED <<riskVars, locVars, sensVars>>
  \/ \E id \in 1 .. MaxRequests : NextAttempt(id) /\ UNCHANGED <<riskVars, locVars, sensVars>>
  \/ \E id \in 1 .. MaxRequests, n \in 0 .. MaxDays, valid \in BOOLEAN :
       BodySettles(id, n, valid) /\ UNCHANGED <<riskVars, locVars, sensVars>>
SpecFetch == InitFetch /\ [][NextFetch]_vars

\* The forecast hook inside App (App.tsx).  usePollenData returns a new
\* object on every render and App's initial-fetch effect has that object
\* among its dependencies, so the effect runs after every render of App.  A
\* render follows every step that set the hook's state: a fetchData that was
\* not skipped, and a request that settled.  App's location and sensitivity
\* are those of the last fetch, or AppInput before any.
AppInput ==
  [location |-> [lat7 |-> 10, lng7 |-> -30, displayName |-> "Here"],
   sensitivity |-> [tree |-> 5, grass |-> 5, weed |-> 5], days |-> 3]

Rendered ==
  \/ fetchLast.op \in {"none", "settle", "handleRetry"}
  \/ fetchLast.op = "fetchData" /\ ~fetchLast.skipped

\* the condition of the initial-fetch effect, with a location present and the
\* sensitivity loaded
InitialFetchDue == Rendered /\ fs.current = <<>>

\* the initial-fetch effect calls fetchData
InitialFetchEffect ==
  /\ InitialFetchDue
  /\ FetchData(IF lastFetchParams = <<>> THEN AppInput ELSE lastFetchParams[1])

\* handleRetry, offered when an error is shown, with a location present:
\* clearError, then fetchData
HandleRetry ==
  /\ fs.error # ""
  /\ LET in == IF lastFetchParams = <<>> THEN AppInput ELSE lastFetchParams[1]
     IN IF lastFetchId = <<FetchId(in)>>
        THEN /\ fs' = [fs EXCEPT !.error = ""]
             /\ fetchLast' = [NoStep EXCEPT !.op = "handleRetry", !.skipped = TRUE]
             /\ UNCHANGED <<lastFetchId, abortCtl, lastFetchParams, reqs>>
        ELSE FetchData(in)

InitApp == FetchInit /\ RiskInit /\ LocIdle /\ SensIdle
NextApp ==
  \/ InitialFetchEffect /\ UNCHANGED <<riskVars, locVars, sensVars>>
  \/ ~InitialFetchDue /\ HandleRetry /\ UNCHANGED <<riskVars, locVars, sensVars>>
  \/ /\ ~InitialFetchDue
     /\ \E in \in FetchInputs : FetchData(in)
     /\ UNCHANGED <<riskVars, locVars, sensVars>>
  \/ /\ ~InitialFetchDue
     /\ \E id \in 1 .. MaxRequests, out \in Thrown \cup {"ok"} : AttemptSettles(id, out)
     /\ UNCHANGED <<riskVars, locVars, sensVars>>
  \/ /\ ~InitialFetchDue
     /\ \E id \in 1 .. MaxRequests : NextAttempt(id)
     /\ UNCHANGED <<riskVars, locVars, sensVars>>
  \/ /\ ~InitialFetchDue
     /\ \E id \in 1 .. MaxRequests, n \in 0 .. MaxDays, valid \in BOOLEAN :
          BodySettles(id, n, valid)
     /\ UNCHANGED <<riskVars, locVars, sensVars>>
SpecApp == InitApp /\ [][NextApp]_vars

InitSens == SensInit /\ RiskInit /\ LocIdle /\ FetchInit
NextSens ==
  \/ SensMount /\ UNCHANGED <<riskVars, locVars, fetchVars>>
  \/ \E value \in SetterInputs :
       SetTreeSensitivity(value) /\ UNCHANGED <<riskVars, locVars, fetchVars>>
  \/ \E value \in {Num(68)} :
       SetGrassSensitivity(value) /\ UNCHANGED <<riskVars, locVars, fetchVars>>
  \/ \E value \in {Num(26)} :
       SetWeedSensitivity(value) /\ UNCHANGED <<riskVars, locVars, fetchVars>>
  \/ \E partialSensitivity \in PartialInputs :
       SetSensitivity(partialSensitivity) /\ UNCHANGED <<riskVars, locVars, fetchVars>>
  \/ ResetToDefaults /\ UNCHANGED <<riskVars, locVars, fetchVars>>
  \/ DiscardChanges /\ UNCHANGED <<riskVars, locVars, fetchVars>>
  \/ SaveChanges /\ UNCHANGED <<riskVars, locVars, fetchVars>>
  \/ AutoSaveFires /\ UNCHANGED <<riskVars, locVars, fetchVars>>
  \/ SensTick /\ UNCHANGED <<riskVars, locVars, fetchVars>>
SpecSens == InitSens /\ [][NextSens]_vars

----------------------------------------------------------------------------
(* Properties of the risk engine, checked under SpecRisk *)

Clamp(x, lo, hi) == Max(lo, Min(hi, x))

\* the index a measurement category stands for: its value when it carries
\* indexInfo, 0 when it is absent or has no indexInfo
GivenIndex(c) == IF c.kind = "index" THEN c.value ELSE 0

\* C1: for every integer rawIndex and sensitivity, in range or not,
\* calculatePollenRiskScore returns clamp(rawIndex,0,5) * clamp(sensitivity,1,10) / 10
\* to one decimal (in tenths: the product itself); inputs are clamped, never
\* rejected, so the result always lies in 0.0 .. 5.0.
C1_ScoreIsClampedProduct ==
  riskCall.fn = "calculatePollenRiskScore" =>
    /\ riskCall.out = Clamp(riskCall.pollenIndex, 0, 5)
                      * Clamp(riskCall.userSensitivity, 1, 10)
    /\ riskCall.out \in 0 .. 50

C1_Witness ==
  /\ riskCall.fn = "calculatePollenRiskScore"
  /\ riskCall.pollenIndex = 7
  /\ riskCall.userSensitivity = 12
  /\ riskCall.out = 50

C3_PersonalizedRisk ==
  riskCall.fn = "calculatePersonalizedRisk" =>
    LET g == riskCall.given
        prof == riskCall.userSensitivity
        out == riskCall.out
        sum == out.pollenTypes.tree.score + out.pollenTypes.grass.score
               + out.pollenTypes.weed.score
    IN /\ out.pollenTypes.tree.score
            = Clamp(GivenIndex(g[1]), 0, 5) * prof.tree
       /\ out.pollenTypes.grass.score
            = Clamp(GivenIndex(g[2]), 0, 5) * prof.grass
       /\ out.pollenTypes.weed.score
            = Clamp(GivenIndex(g[3]), 0, 5) * prof.weed
       \* the nearest tenth to sum/3, a half rounding up
       /\ 6 * out.overallScore <= 2 * sum + 3
       /\ 2 * sum + 3 < 6 * out.overallScore + 6
       /\ (out.overallRisk = "low") <=> (out.overallScore < 20)
       /\ (out.overallRisk = "moderate")
            <=> (20 <= out.overallScore /\ out.overallScore < 50)
       /\ (out.overallRisk = "high")
            <=> (50 <= out.overallScore /\ out.overallScore < 80)
       /\ (out.overallRisk = "very-high") <=> (out.overallScore >= 80)
       /\ (\A i \in 1..3 : GivenIndex(g[i]) = 0)
            => (out.overallScore = 0 /\ out.overallRisk = "low")
       /\ ((\A i \in 1..3 : GivenIndex(g[i]) = 5)
           /\ prof.tree = 10 /\ prof.grass = 10 /\ prof.weed = 10)
            => (out.overallScore = 50 /\ out.overallRisk = "high")

\* one category absent, one without indexInfo, one at index 5 with
\* sensitivity 10: scores 0, 0, 5.0 and the mean 1.666 is rounded to 1.7
C3_Witness ==
  /\ riskCall.fn = "calculatePersonalizedRisk"
  /\ riskCall.given[1].kind = "absent"
  /\ riskCall.given[2].kind = "noinfo"
  /\ riskCall.given[3] = [kind |-> "index", value |-> 5]
  /\ riskCall.userSensitivity.weed = 10
  /\ riskCall.out.overallScore = 17
  /\ riskCall.out.overallRisk = "low"

----------------------------------------------------------------------------
(* Properties of the location hook, checked under SpecLoc *)

\* the distance in metres between a stored location and a position
MetresApart(location, p) == Abs(p - location.pos)

\* C4: a detection that resolves while no current location is stored, or with
\* a position at least 1000 m from the current stored location, is accepted:
\* the current location becomes the detected one, the settings are persisted
\* with current set to it and a last-detection timestamp, and onLocationChange
\* is notified.
C4_SignificantDetectionAccepted ==
  [][\A i \in 1 .. MaxPending, p \in Positions :
       (/\ DetectResolve(i, p)
        /\ \/ loc.location = <<>>
           \/ MetresApart(loc.location[1], p) >= 1000)
       => /\ loc'.location = <<DetectedLocation(p)>>
          /\ loc'.settings.current = <<DetectedLocation(p)>>
          /\ locStored' # <<>>
          /\ locStored'[1].current = <<DetectedLocation(p)>>
          /\ locStored'[1].lastDetectionTime > 0
          /\ locLast'.notified = <<DetectedLocation(p)>>]_vars

\* C5: a detection that resolves with a position less than 1000 m from the
\* current stored location is discarded: location, settings and persisted
\* settings stay as they are, onLocationChange is not called and only the
\* loading flag is cleared.
C5_NearbyDetectionDiscarded ==
  [][\A i \in 1 .. MaxPending, p \in Positions :
       (/\ DetectResolve(i, p)
        /\ loc.location # <<>>
        /\ MetresApart(loc.location[1], p) < 1000)
       => /\ loc' = [loc EXCEPT !.isLoading = FALSE]
          /\ locStored' = locStored
          /\ locLast'.notified = <<>>]_vars

----------------------------------------------------------------------------
(* Claims on the forecast hook                                              *)

\* the most recently initiated request is still outstanding with the key of in
LatestOutstandingWithKey(in) ==
  /\ reqs # <<>>
  /\ reqs[Len(reqs)].phase # "done"
  /\ FetchId(reqs[Len(reqs)].input[1]) = FetchId(in)

\* C6: a fetchData whose key equals the key of the most recently initiated
\* request, while that request is still outstanding, does nothing: no second
\* provider call and no change of the hook's state or refs.
C6_DuplicateIsNoOp ==
  [][\A in \in FetchInputs :
       (LatestOutstandingWithKey(in) /\ FetchData(in))
         => /\ UNCHANGED <<fs, lastFetchId, abortCtl, lastFetchParams, reqs>>
            /\ ~fetchLast'.provider]_vars

\* request id settles: fetchData resumes after its await and ends
Settles(id) ==
  \/ \E out \in Thrown : AttemptSettles(id, out) /\ reqs'[id].phase = "done"
  \/ \E n \in 0 .. MaxDays, valid \in BOOLEAN : BodySettles(id, n, valid)

\* C7: once a fetchData with another key has cancelled a request, that
\* request neither calls the provider again nor writes forecast, current,
\* location or error: only the latest request can.
C7_CancelledRequestIsInert ==
  [][\A id \in 1 .. MaxRequests :
       /\ (NextAttempt(id) /\ reqs[id].outerAborted) => ~fetchLast'.provider
       /\ (Settles(id) /\ reqs[id].outerAborted)
            => /\ fs'.forecast = fs.forecast
               /\ fs'.current = fs.current
               /\ fs'.location = fs.location
               /\ fs'.lastUpdated = fs.lastUpdated]_vars

\* C8: when an aborted request completes, no error is set, onError is not
\* called and the stored forecast is unchanged.
C8_AbortSetsNoError ==
  [][\A id \in 1 .. MaxRequests :
       (Settles(id) /\ reqs[id].outerAborted)
         => /\ fs'.error = fs.error
            /\ fetchLast'.onError = ""
            /\ fs'.forecast = fs.forecast]_vars

----------------------------------------------------------------------------
(* Claims on the sensitivity hook                                           *)

\* the delay has passed since the last edit and no timeout is pending
Settled == sensQuiet >= AutoSaveDelay /\ sensTimer = <<>>

\* C9 as stated: with auto-save on, once the delay has passed after a run of
\* valid edits, each made before the delay since the one before had passed,
\* persistence was called exactly once, with the last edited profile.
C9_BurstSavedOnce ==
  (sensOpts.autoSave /\ sensBurst.n >= 2 /\ sensBurst.valid /\ Settled)
    => (sensBurst.calls = 1 /\ sensLast.called = <<sens.sensitivity>>)

\* C9 amended: with auto-save on, a run of valid edits causes no persistence
\* call before the delay has passed since its last edit; once it has passed
\* there was exactly one call, with the last edited profile, when that
\* profile differs from the saved baseline, and none when it equals it.
C9_BurstSavedOnceUnlessBaseline ==
  (sensOpts.autoSave /\ sensBurst.n >= 1 /\ sensBurst.valid)
    => /\ sensBurst.calls <= 1
       /\ sensBurst.calls = 1
            => /\ sensQuiet >= AutoSaveDelay
               /\ sensBurst.differs
               /\ sensLast.called = <<sens.sensitivity>>
               /\ sensLast.op = "autoSave"
       /\ Settled => sensBurst.calls = (IF sensBurst.differs THEN 1 ELSE 0)

C9_Witness ==
  /\ sensOpts.autoSave
  /\ sensBurst = [n |-> 2, valid |-> TRUE, calls |-> 1, differs |-> TRUE]
  /\ Settled
  /\ sensLast.called = <<sens.sensitivity>>
  /\ sens.sensitivity = Profile(70, 70, 50)

\* C10: persistence is never called with a profile that is not valid; an
\* edit to an invalid profile still shows the profile, marks it invalid and
\* sets the validation error.
C10_InvalidNeverPersisted ==
  /\ sensLast.called # <<>> => validateSensitivity(sensLast.called[1])
  /\ (sensLast.profile # <<>> /\ ~validateSensitivity(sensLast.profile[1]))
       => /\ sens.sensitivity = sensLast.profile[1]
          /\ ~sens.isValid
          /\ sens.error = "Invalid sensitivity values"
          /\ sensLast.called = <<>>

C10_Witness ==
  /\ sensLast.op = "setTreeSensitivity"
  /\ sens.sensitivity.tree = NaN
  /\ sens.error = "Invalid sensitivity values"
  /\ sens.hasChanges
  /\ sensTimer = <<>>

\* a step that runs saveChanges, from the interface or from the timeout
SaveStep == SaveChanges \/ AutoSaveFires

\* C11: after every operation hasChanges is true exactly when the visible
\* profile differs from the saved baseline; an edit back to the baseline
\* value leaves it false.
C11_HasChangesIffDiffers ==
  /\ sens.hasChanges <=> (sens.sensitivity # sensOriginal)
  /\ sens.isDirty = sens.hasChanges

C11_Witness ==
  /\ sensLast.op = "setTreeSensitivity"
  /\ sensBurst.n = 2
  /\ sens.sensitivity = sensOriginal
  /\ ~sens.hasChanges
  /\ sensOriginal = Profile(70, 50, 50)

\* C12: when updateSensitivityProfile returns false or throws, saveChanges
\* returns false, hasChanges stays true, baseline and visible profile are
\* unchanged, isSaving ends false, and the error message tells the two
\* failures apart.
C12_SaveFailureKeepsChanges ==
  [][(SaveStep /\ sensLast'.result \in {"false", "throws"})
       => /\ sensLast'.returned = "false"
          /\ sens'.hasChanges
          /\ sensOriginal' = sensOriginal
          /\ sens'.sensitivity = sens.sensitivity
          /\ ~sens'.isSaving
          /\ sens'.error =
               IF sensLast'.result = "false"
               THEN "Failed to save sensitivity settings. Please try again."
               ELSE "Unable to save settings. Please check your browser storage."]_vars

C12_Witness ==
  /\ sensLast.op = "saveChanges"
  /\ sensLast.result = "throws"
  /\ sensLast.returned = "false"
  /\ sens.hasChanges
  /\ sens.error = "Unable to save settings. Please check your browser storage."

\* C13: when saveChanges persists successfully, the profile passed is the
\* visible one, it becomes the baseline, hasChanges and isDirty are false,
\* isSaving is false and the error is cleared; discardChanges then shows
\* the baseline, that is the profile saved last.
C13_SuccessfulSaveSetsBaseline ==
  [][/\ (SaveStep /\ sensLast'.result = "true")
          => /\ sensLast'.called = <<sens.sensitivity>>
             /\ sensStored' = <<sens.sensitivity>>
             /\ sens'.sensitivity = sens.sensitivity
             /\ sensOriginal' = sens.sensitivity
             /\ ~sens'.hasChanges /\ ~sens'.isDirty /\ ~sens'.isSaving
             /\ sens'.error = ""
             /\ sensLast'.returned = "true"
     /\ DiscardChanges
          => /\ sens'.sensitivity = sensOriginal
             /\ sensOriginal' = sensOriginal
             /\ ~sens'.hasChanges]_vars

\* a discard after an edit, with a baseline that only a save can have set
C13_Witness ==
  /\ sensLast.op = "discardChanges"
  /\ sensBurst.n = 2
  /\ sensOriginal = Profile(100, 70, 50)
  /\ sens.sensitivity = sensOriginal
  /\ sensStored = <<sensOriginal>>

\* C14: saveChanges calls updateSensitivityProfile exactly when hasChanges
\* and isValid are both true; otherwise it returns true, calls nothing and
\* changes no state.
C14_SaveIffChangedAndValid ==
  [][SaveStep
       => /\ (sensLast'.called # <<>>) <=> (sens.hasChanges /\ sens.isValid)
          /\ sensLast'.called = <<>>
               => /\ sensLast'.returned = "true"
                  /\ UNCHANGED <<sens, sensOriginal, sensStored>>]_vars

C14_Witness ==
  /\ sensLast.op = "saveChanges"
  /\ sensLast.called = <<>>
  /\ sensLast.returned = "true"
  /\ sens.hasChanges
  /\ ~sens.isValid

\* the values the setters are given in the model
AllSetterInputs == SetterInputs \cup {Num(68), Num(26)}

Fields == {"tree", "grass", "weed"}

\* a per-category setter leaves the other two fields as they are
SetterFrame ==
  /\ sensLast'.op = "setTreeSensitivity"
       => \A value \in AllSetterInputs :
            SetTreeSensitivity(value)
              => /\ sens'.sensitivity.grass = sens.sensitivity.grass
                 /\ sens'.sensitivity.weed = sens.sensitivity.weed
  /\ sensLast'.op = "setGrassSensitivity"
       => \A value \in AllSetterInputs :
            SetGrassSensitivity(value)
              => /\ sens'.sensitivity.tree = sens.sensitivity.tree
                 /\ sens'.sensitivity.weed = sens.sensitivity.weed
  /\ sensLast'.op = "setWeedSensitivity"
       => \A value \in AllSetterInputs :
            SetWeedSensitivity(value)
              => /\ sens'.sensitivity.tree = sens.sensitivity.tree
                 /\ sens'.sensitivity.grass = sens.sensitivity.grass

\* a per-category setter leaves the other two fields as they are, and leaves
\* NaN in its own field when it was given NaN, and only then
SetterFrameUnlessNaN ==
  /\ sensLast'.op = "setTreeSensitivity"
       => \A value \in AllSetterInputs :
            SetTreeSensitivity(value)
              => /\ sens'.sensitivity.grass = sens.sensitivity.grass
                 /\ sens'.sensitivity.weed = sens.sensitivity.weed
                 /\ sens'.sensitivity.tree = NaN <=> value.nan
  /\ sensLast'.op = "setGrassSensitivity"
       => \A value \in AllSetterInputs :
            SetGrassSensitivity(value)
              => /\ sens'.sensitivity.tree = sens.sensitivity.tree
                 /\ sens'.sensitivity.weed = sens.sensitivity.weed
                 /\ sens'.sensitivity.grass = NaN <=> value.nan
  /\ sensLast'.op = "setWeedSensitivity"
       => \A value \in AllSetterInputs :
            SetWeedSensitivity(value)
              => /\ sens'.sensitivity.tree = sens.sensitivity.tree
                 /\ sens'.sensitivity.grass = sens.sensitivity.grass
                 /\ sens'.sensitivity.weed = NaN <=> value.nan

----------------------------------------------------------------------------
(* Claims on the location hook: city selection, manual input, cancellation  *)

\* what persistence was last given says auto-detection is off and the
\* current location is place
PersistedCity(stored, place) ==
  /\ stored # <<>>
  /\ ~stored[1].useAutoDetection
  /\ stored[1].current = <<place>>

\* C16: after setCityLocation(place) the settings in memory and the settings
\* last written to persistence have useAutoDetection false and current equal
\* to the place, whatever the settings were before.
C16_CityTurnsAutoDetectionOff ==
  [][\A city \in Cities :
       SetCityLocation(city)
         => /\ ~loc'.settings.useAutoDetection
            /\ loc'.settings.current = <<CityLocation(city)>>
            /\ PersistedCity(locStored', CityLocation(city))]_vars

InvalidManual(input) == ~validateCoordinates(input.latitude, input.longitude)

\* C17: setManualLocation with coordinates that do not parse or are out of
\* range fails with an error of kind INVALID_LOCATION.
C17_InvalidInputIsInvalidLocation ==
  [][\A input \in ManualInputs :
       (InvalidManual(input) /\ SetManualLocation(input))
         => /\ loc'.error = "INVALID_LOCATION"
            /\ locLast'.onError = "INVALID_LOCATION"]_vars

\* C18: setManualLocation with invalid input leaves the location, the
\* settings in memory and the persisted settings as they are, writes nothing
\* and notifies nobody of a location; it sets the error and ends with
\* isLoading false.
C18_InvalidInputChangesNoLocation ==
  [][\A input \in ManualInputs :
       (InvalidManual(input) /\ SetManualLocation(input))
         => /\ loc'.location = loc.location
            /\ loc'.settings = loc.settings
            /\ loc'.isSupported = loc.isSupported
            /\ locStored' = locStored
            /\ locLast'.saved = <<>>
            /\ locLast'.notified = <<>>
            /\ loc'.error # ""
            /\ locLast'.onError = loc'.error
            /\ ~loc'.isLoading]_vars

\* invalid input given while a city is the current location
C18_Witness ==
  /\ locLast.op = "setManualLocation"
  /\ locLast.onError # ""
  /\ loc.error = locLast.onError
  /\ loc.location # <<>>
  /\ loc.location[1].displayName = "Paris"
  /\ locStored # <<>>

\* C19: at most one location detection is outstanding at any time, and only
\* the one requested last can change the location or the settings.
C19_OneDetectionOutstanding ==
  [][/\ Len(locPending') <= 1
     /\ \A i \in 1 .. MaxPending, p \in Positions :
          (DetectResolve(i, p) /\ locLast'.accepted) => i = Len(locPending)]_vars

----------------------------------------------------------------------------
(* Claims on the saved locations and on persistence of the settings         *)

\* the entry saveLocation(location, name) stores
Named(in) ==
  [in.location EXCEPT !.displayName =
     IF in.name # "" THEN in.name ELSE formatLocationDisplay(in.location)]

\* the saved entries within 100 m of a location
Within100m(savedLocations, location) ==
  {i \in 1 .. Len(savedLocations) :
     MetresApart(savedLocations[i], location.pos) < 100}

\* a list with the entries beyond ten taken from its front
OldestEvicted(savedLocations) ==
  IF Len(savedLocations) > 10
  THEN SubSeq(savedLocations, Len(savedLocations) - 9, Len(savedLocations))
  ELSE savedLocations

\* C21: saveLocation replaces in place the saved entry within 100 m of the
\* location, keeping length and order, and appends at the end only when no
\* saved entry is within 100 m.
C21_ReplacesOnlyWithin100m ==
  [][locLast'.op = "saveLocation"
       => \A in \in SaveInputs :
            SaveLocation(in)
              => LET old == loc.settings.savedLocations
                     new == loc'.settings.savedLocations
                     near == Within100m(old, in.location)
                 IN IF near = {}
                    THEN new = OldestEvicted(Append(old, Named(in)))
                    ELSE \E i \in near : new = [old EXCEPT ![i] = Named(in)]]_vars

\* C22: the saved list never holds more than 10 entries, in memory or in
\* storage; a save that does not replace an entry of a list of 10 drops the
\* entry at the front and keeps the new entry at the end.
C22_SavedListCapped ==
  [][/\ Len(loc'.settings.savedLocations) <= 10
     /\ locStored' # <<>> => Len(locStored'[1].savedLocations) <= 10
     /\ locLast'.op = "saveLocation"
          => \A in \in SaveInputs :
               SaveLocation(in)
                 => LET old == loc.settings.savedLocations
                        new == loc'.settings.savedLocations
                    IN (/\ Len(old) = 10
                        /\ ~\E i \in 1 .. 10 : new = [old EXCEPT ![i] = Named(in)])
                         => new = Append(Tail(old), Named(in))
     /\ locLast'.op = "setCityLocation"
          => \A city \in Cities :
               SetCityLocation(city)
                 => LET old == loc.settings.savedLocations
                        new == loc'.settings.savedLocations
                    IN (/\ Len(old) = 10
                        /\ ~\E i \in 1 .. 10 : new = [old EXCEPT ![i] = CityLocation(city)])
                         => new = Append(Tail(old), CityLocation(city))]_vars

\* a full list took one more place: the oldest went, the new one is last
C22_Witness ==
  /\ locLast.op = "saveLocation"
  /\ Len(loc.settings.savedLocations) = 10
  /\ loc.settings.savedLocations[10] = ManualLocation(0, "Work")
  /\ loc.settings.savedLocations[1] = FullList[2]
  /\ locStored = <<loc.settings>>

NoNearPair(savedLocations) ==
  \A i, j \in 1 .. Len(savedLocations) :
    i # j => MetresApart(savedLocations[i], savedLocations[j].pos) >= 100

\* C23: the saved list is deduplicated by proximity: saveLocation never makes
\* a list without two entries within 100 m of each other (the empty list to
\* begin with) into a list with two such entries.
C23_NoTwoSavedWithin100m ==
  [][(locLast'.op = "saveLocation" /\ NoNearPair(loc.settings.savedLocations))
       => NoNearPair(loc'.settings.savedLocations)]_vars

\* the settings in memory are the settings last written
Persisted ==
  /\ locStored' = <<loc'.settings>>
  /\ locLast'.saved = <<loc'.settings>>

----------------------------------------------------------------------------
(* Claims on the forecast hook: the two flags, and a response of no days     *)

\* C25: a fetch that is not a duplicate sets isLoading exactly when there is
\* no forecast yet and isRefreshing exactly when there is one; the two flags
\* are never both true; both are false when a fetch has succeeded.
C25_LoadingOrRefreshing ==
  [][/\ ~(fs'.isLoading /\ fs'.isRefreshing)
     /\ (fetchLast'.op = "fetchData" /\ ~fetchLast'.skipped)
          => /\ fs'.isLoading <=> (fs.forecast = <<>>)
             /\ fs'.isRefreshing <=> (fs.forecast # <<>>)
     /\ fetchLast'.onDataUpdate
          => (~fs'.isLoading /\ ~fs'.isRefreshing /\ fs'.forecast # <<>>)]_vars

\* a fetch was started while a forecast is shown
C25_Witness ==
  /\ fetchLast.op = "fetchData"
  /\ ~fetchLast.skipped
  /\ fs.forecast # <<>>
  /\ fs.isRefreshing
  /\ ~fs.isLoading

\* C26: a response of zero days ends fetchData with the error
\* NO_DATA_AVAILABLE and both flags false; no empty forecast is stored, and
\* the forecast, the current result, the time of the last update and the
\* location of the last fetch stay as they were.
C26_ZeroDaysIsNoData ==
  [][fetchLast'.days = <<0>>
       => /\ fs'.error = "NO_DATA_AVAILABLE"
          /\ fetchLast'.onError = "NO_DATA_AVAILABLE"
          /\ ~fetchLast'.onDataUpdate
          /\ ~fs'.isLoading
          /\ ~fs'.isRefreshing
          /\ fs'.forecast = fs.forecast
          /\ fs'.current = fs.current
          /\ fs'.lastUpdated = fs.lastUpdated
          /\ fs'.location = fs.location]_vars

\* zero days came back while an earlier forecast is shown
C26_Witness ==
  /\ fetchLast.op = "settle"
  /\ fetchLast.days = <<0>>
  /\ fs.error = "NO_DATA_AVAILABLE"
  /\ fs.forecast # <<>>
  /\ fs.current # <<>>
  /\ fs.lastUpdated # <<>>

----------------------------------------------------------------------------
(* Claims on the risk engine: recommendations                               *)

\* the advisories of the in-season entries, one after the other, repeats
\* included
RECURSIVE InSeasonAdvisories(_, _)
InSeasonAdvisories(info, i) ==
  IF i > Len(info) THEN <<>>
  ELSE (IF info[i].inSeason /\ info[i].healthRecommendations # <<>>
        THEN info[i].healthRecommendations[1] ELSE <<>>)
       \o InSeasonAdvisories(info, i + 1)

\* where an advisory first appears in a list that holds it
FirstAt(list, rec) ==
  CHOOSE i \in 1 .. Len(list) :
    list[i] = rec /\ \A j \in 1 .. (i - 1) : list[j] # rec

\* r is the list of the distinct elements of list in order of first
\* appearance, cut to at most 5
IsFirstFiveDistinct(r, list) ==
  LET distinct == {list[i] : i \in 1 .. Len(list)}
  IN /\ Len(r) = Min(5, Cardinality(distinct))
     /\ \A i \in 1 .. Len(r) : r[i] \in distinct
     /\ \A i, j \in 1 .. Len(r) : i < j => FirstAt(list, r[i]) < FirstAt(list, r[j])
     /\ \A rec \in distinct :
          (\E i \in 1 .. Len(r) : FirstAt(list, rec) < FirstAt(list, r[i]))
            => \E k \in 1 .. Len(r) : r[k] = rec

----------------------------------------------------------------------------
(* Claims on the risk engine: trend                                         *)

\* the trend the rule gives for two scores in tenths
TrendByRule(current, previous) ==
  LET difference == current - previous
  IN [direction |-> IF Abs(difference) < 5 THEN "stable"
                    ELSE IF difference > 0 THEN "worsening" ELSE "improving",
      magnitude |-> IF Abs(difference) < 10 THEN "slight"
                    ELSE IF Abs(difference) < 20 THEN "moderate"
                    ELSE "significant"]

\* C27: getTrend(dayIndex) is null exactly when dayIndex <= 0 or dayIndex is
\* at or past the end of the forecast; otherwise the direction is stable when
\* the scores of the day and the day before differ by less than 0.5, else
\* worsening or improving by the sign, and the magnitude is slight below 1.0,
\* moderate below 2.0, else significant.
C27_TrendByThresholds ==
  riskCall.fn = "getTrend"
    => LET forecast == riskCall.forecast
           dayIndex == riskCall.dayIndex
       IN /\ (riskCall.out = <<>>) <=> (dayIndex <= 0 \/ dayIndex >= Len(forecast))
          /\ riskCall.out # <<>>
               => LET rule == TrendByRule(forecast[dayIndex + 1], forecast[dayIndex])
                  IN /\ riskCall.out[1].direction = rule.direction
                     /\ riskCall.out[1].magnitude = rule.magnitude

----------------------------------------------------------------------------
(* Claims on the sensitivity hook: the debounce                             *)

\* the last edit of the run is valid, differs from the saved baseline, and no
\* save has failed since
LoneValidEdit ==
  /\ sensOpts.autoSave
  /\ sensBurst.n >= 1
  /\ sens.isValid
  /\ sensBurst.differs
  /\ sensLast.result \notin {"false", "throws"}

\* C29: with auto-save on, a valid edit that is not followed by another edit
\* has been persisted, and hasChanges is false, once 800 ms have passed since
\* the edit; persistence is not called before the debounce delay has passed.
C29_PersistedOnce800msPassed ==
  /\ (LoneValidEdit /\ sensQuiet >= 800 /\ sensTimer # <<0>>)
       => /\ sensLast.called = <<sens.sensitivity>>
          /\ sensStored = <<sens.sensitivity>>
          /\ ~sens.hasChanges
  /\ (sensOpts.autoSave /\ sensBurst.n >= 1 /\ sensQuiet < AutoSaveDelay)
       => sensBurst.calls = 0

\* C30: the onSensitivityChange callback is debounced: the edit itself does
\* not invoke it, and it is invoked, with the edited profile, only once the
\* debounce delay has passed since the edit.
C30_ChangeCallbackDebounced ==
  sensLast.notified
    => /\ sensQuiet >= AutoSaveDelay
       /\ sensLast.profile = <<sens.sensitivity>>

----------------------------------------------------------------------------
(* Claims on the pollen API service: retry                                  *)

\* the members of PollenErrorType
PollenErrorTypes ==
  {"NETWORK_ERROR", "API_RATE_LIMIT", "NO_DATA_AVAILABLE", "INVALID_LOCATION",
   "API_KEY_INVALID", "UNKNOWN_ERROR"}

\* the failures withRetry does not retry
AuthOrRateLimit == {"Response401", "Response403", "Response429"}

\* the request has ended and what was raised is a PollenError
RaisedAsPollenError(id) ==
  /\ reqs'[id].phase = "done"
  /\ fetchLast'.op = "settle"
  /\ fetchLast'.onError \in PollenErrorTypes

\* C31: a request that fails with HTTP 401, 403 or 429 is not attempted
\* again; a request that fails for another reason is attempted again after
\* the backoff, with at most 2 attempts in all, and then the last failure is
\* raised as a PollenError.
C31_RetryPolicy ==
  [][\A id \in 1 .. Len(reqs) :
       reqs[id].phase = "attempt"
         => /\ reqs[id].attempt <= RetryAttempts
            /\ \A out \in Thrown :
                 AttemptSettles(id, out)
                   => IF out \in AuthOrRateLimit
                      THEN RaisedAsPollenError(id)
                      ELSE IF reqs[id].attempt < RetryAttempts
                      THEN /\ reqs'[id].phase = "backoff"
                           /\ reqs'[id].attempt = reqs[id].attempt
                      ELSE RaisedAsPollenError(id)]_vars

----------------------------------------------------------------------------
(* Claims on the location hook: the auto-detect effect                      *)

\* C32: with autoDetect on, useAutoDetection true, geolocation supported and
\* nothing stored, the auto-detect effect of the mount starts one detection;
\* when a detection fails and the location stays null, no further detection
\* is started.
C32_AutoDetectsOnce ==
  [][/\ (/\ locLast'.op = "mount"
         /\ locOpts.autoDetect
         /\ loc.isSupported
         /\ locStored = <<>>)
          => Len(locPending') = 1
     /\ (locLast'.op = "detectReject" /\ loc'.location = <<>>)
          => Len(locPending') = Len(locPending) - 1]_vars

----------------------------------------------------------------------------
(* Claims on the forecast hook: concurrent requests                         *)

\* C33: the latest request wins: a request that stores its forecast, current
\* result and location never replaces what a request initiated after it has
\* stored, so that once all requests have settled the stored data are those
\* of the most recently initiated request that succeeded.
C33_LatestRequestWins ==
  [][(fetchLast'.op = "settle" /\ fetchLast'.onDataUpdate)
       => /\ fs'.lastUpdated = <<fetchLast'.id>>
          /\ fs.lastUpdated = <<>> \/ fs.lastUpdated[1] < fetchLast'.id]_vars

\* C34: while the most recently initiated request is outstanding, isLoading
\* or isRefreshing is true and the duplicate-suppression key is that of the
\* request: the completion of an earlier request clears neither.
C34_LatestKeepsFlagsAndKey ==
  (reqs # <<>> /\ reqs[Len(reqs)].phase # "done")
    => /\ fs.isLoading \/ fs.isRefreshing
       /\ lastFetchId = <<FetchId(reqs[Len(reqs)].input[1])>>

----------------------------------------------------------------------------
(* Claims on the risk engine: the range of the overall level                *)

\* C35: for indices in 0..5 and sensitivities in 1..10 every category score
\* is at most 5.0, the overall level is never very-high, the activity
\* recommendation is never 'avoid', and the overall level is high only when
\* all three indices are 5 and all three sensitivities are 10.
C35_OverallAtMostHigh ==
  riskCall.fn = "getActivityRecommendation"
    => LET r == riskCall.processedData
       IN /\ \A k \in {"tree", "grass", "weed"} : r.pollenTypes[k].score <= 50
          /\ r.overallRisk # "very-high"
          /\ riskCall.out # "avoid"
          /\ r.overallRisk = "high"
               => /\ riskCall.given = <<5, 5, 5>>
                  /\ riskCall.userSensitivity = [tree |-> 10, grass |-> 10, weed |-> 10]

\* maximum indices with maximum sensitivities: high, and 'caution'
C35_Witness ==
  /\ riskCall.fn = "getActivityRecommendation"
  /\ riskCall.given = <<5, 5, 5>>
  /\ riskCall.userSensitivity = [tree |-> 10, grass |-> 10, weed |-> 10]
  /\ riskCall.processedData.overallScore = 50
  /\ riskCall.processedData.overallRisk = "high"
  /\ riskCall.out = "caution"

----------------------------------------------------------------------------
(* Claims on the location hook: settings and detections in flight           *)

SettingsMutations == {"toggleAutoDetection", "saveLocation", "removeLocation"}

\* C36: a settings mutation made while a detection is in flight is not lost
\* when the detection resolves and is accepted: the settings in memory and in
\* storage still hold it, and the detection changed only current and
\* lastDetectionTime.
C36_MutationSurvivesDetection ==
  [][(/\ locLast.op \in SettingsMutations
      /\ locLast'.op = "detectResolve"
      /\ locLast'.accepted)
       => /\ loc'.settings.useAutoDetection = loc.settings.useAutoDetection
          /\ loc'.settings.savedLocations = loc.settings.savedLocations
          /\ locStored' = <<loc'.settings>>]_vars

\* the operations that accept a new current location
AcceptingOps ==
  {"detectResolve", "setManualLocation", "setCityLocation", "selectSavedLocation"}

\* C37: after an operation that accepted a new current location, the hook's
\* location equals settings.current in memory and in the persisted settings.
C37_LocationIsSettingsCurrent ==
  (locLast.op \in AcceptingOps /\ locLast.notified # <<>>)
    => /\ loc.location = locLast.notified
       /\ loc.settings.current = loc.location
       /\ locStored # <<>>
       /\ loadLocationSettings(locStored).current = loc.location

----------------------------------------------------------------------------
(* Claims on the forecast hook inside App: fetches after a failure          *)

\* C38: after a fetch has failed with no forecast data present, the
\* application starts no fetch on its own: the initial-fetch effect does not
\* call the provider again.
C38_NoFetchAfterFailure ==
  [][(/\ fetchLast.op = "settle"
      /\ fetchLast.onError # ""
      /\ fs.current = <<>>
      /\ InitialFetchEffect)
       => ~fetchLast'.provider]_vars

----------------------------------------------------------------------------
(* Claims on the forecast hook: duplicate suppression after settling        *)

\* every request sent so far has settled
AllSettled == \A id \in 1 .. Len(reqs) : reqs[id].phase = "done"

\* C39: once the requests have settled (by success, failure, timeout or
\* abort) and none is outstanding, the duplicate-suppression key is clear,
\* and a fetchData, refreshData or retry, whatever its key, is not skipped
\* and calls the provider.
C39_SettledNeverBlocksRetry ==
  [][/\ (reqs' # <<>> /\ \A id \in 1 .. Len(reqs') : reqs'[id].phase = "done")
          => lastFetchId' = <<>>
     /\ (AllSettled /\ fetchLast'.op = "fetchData")
          => (~fetchLast'.skipped /\ fetchLast'.provider)]_vars

\* the first request failed and settled; the same parameters were fetched
\* again and reached the provider
C39_Witness ==
  /\ Len(reqs) = 2
  /\ reqs[1].phase = "done"
  /\ fs.lastUpdated = <<>>
  /\ fetchLast.op = "fetchData"
  /\ fetchLast.id = 2
  /\ fetchLast.provider
  /\ reqs[2].input = <<AppInput>>
  /\ lastFetchId = <<FetchId(AppInput)>>

----------------------------------------------------------------------------
(* Claims on the sensitivity hook: a burst that returns to the baseline     *)

\* C40: with auto-save on, a burst of edits whose last value equals the saved
\* baseline leaves no write pending: persistence is not called and hasChanges
\* is false, also after the debounce delay has passed.
C40_BackToBaselineCancelsWrite ==
  (sensOpts.autoSave /\ sensBurst.n >= 2 /\ sensLast.profile = <<sensOriginal>>)
    => /\ sensTimer = <<>>
       /\ sensBurst.calls = 0
       /\ sensLast.called = <<>>
       /\ ~sens.hasChanges
       /\ ~sens.isSaving

\* two edits of tree ending at the baseline, the delay has passed, nothing
\* was ever written
C40_Witness ==
  /\ sensOpts.autoSave
  /\ sensBurst.n = 2
  /\ sensLast.op = "setTreeSensitivity"
  /\ sensLast.profile = <<DEFAULT_SENSITIVITY>>
  /\ sensOriginal = DEFAULT_SENSITIVITY
  /\ Settled
  /\ sensStored = <<>>
  /\ ~sens.hasChanges

============================================================================
